---- MODULE Spec2Model ----
(***************************************************************************)
(* State-machine model of the ploupy game core (game_logic/src/game).      *)
(*                                                                         *)
(* Time is counted in ticks of 0.5 s: a delay of 0.5 s is 1, of 1 s is 2.  *)
(* Option<T> is modelled as a sequence: None is <<>>, Some(v) is <<v>>.    *)
(* A Coord is a pair <<x, y>>.  With probe_speed at least the diameter of  *)
(* the map every travel gate fires on its first wait, so a probe's pos is  *)
(* a coordinate whenever a tick or an action starts.                       *)
(***************************************************************************)
EXTENDS Integers, Sequences, FiniteSets, TLC

None == <<>>
Some(v) == <<v>>
IsSome(o) == o # <<>>
Unwrap(o) == o[1]

NOT_IDENTIFIABLE == 0

(***************************************************************************)
(* GameConfig: the configuration the games of this model are built with.   *)
(***************************************************************************)
dim_x == 3
dim_y == 3
n_player == 2
initial_money == 3
initial_n_probes == 1
base_income == 1
building_occupation_min == 1
factory_price == 2
factory_expansion_size == 1
factory_max_probe == 2
factory_build_probe_delay == 2
factory_maintenance_costs == 0
max_occupation == 3
probe_speed == 3
probe_hp == 1
probe_claim_intensity == 1
probe_explosion_intensity == 3
probe_price == 1
probe_claim_delay == 1
probe_maintenance_costs == 1
turret_price == 2
turret_damage == 1
turret_fire_delay == 2
turret_scope == 1
turret_maintenance_costs == 1
income_rate == 0
deprecate_rate == 3
tech_probe_explosion_intensity_increase == 1
tech_probe_claim_intensity_increase == 1
tech_probe_hp_increase == 1
tech_factory_build_delay_decrease == 1
tech_factory_probe_price_decrease == 1
tech_factory_max_probe_increase == 1
tech_turret_scope_increase == 1
tech_turret_fire_delay_decrease == 1
tech_turret_maintenance_costs_decrease == 1
tech_price == 2

\* delays fixed by the code, in ticks
delay_expand == 1
delay_income == 2
delay_deprecate == 2
\* number of vortex coordinates get_probe_attack_target looks at
vortex_limit == 1000
\* a tile that is not the player's is a farm target only up to this occupation
farm_occupation_max == 3
\* intensity of the claims of a factory's expansion
expand_intensity == 2

\* ids handed to Game::new, and the start positions it computes for them
PlayerIds == <<1, 2>>
\* first id generate_unique_id hands out to a unit (tiles have their own ids)
FirstUnitId == 11

(***************************************************************************)
(* Bounds of the model.                                                    *)
(***************************************************************************)
MaxTicks == 3
MaxActions == 2
RaidTicks == 2
RaidActions == 3
MaxMoney == 6
TechTicks == 1
TechActions == 3
QuietMoney == 1
QuietTicks == 4
ClaimSteps == 3
ClaimIntensity == 4
ExpandSize == 4
ExpandUnit == 6
TrioTicks == 3
TrioActions == 4
ArmTicks == 2
ArmActions == 2
MergeMoney == 2
HandleSteps == 4
InsertSteps == 4
SiegeTicks == 3
SiegeActions == 3
DuelTicks == 3
DuelActions == 4
StockTicks == 5
CrowdTicks == 3
CrowdActions == 2
FarmCap == 5
DecaySteps == 3
DelaySteps == 4
DelayMax == 3
VortexSteps == 26
ShapeMax == 4
ProbePace == 1
ProbeSteps == 6

DtSet == {1}

Coords == (0 .. dim_x - 1) \X (0 .. dim_y - 1)

Min(S) == CHOOSE m \in S : \A n \in S : m <= n

RECURSIVE Flatten(_)
Flatten(ss) == IF Len(ss) = 0 THEN <<>> ELSE Head(ss) \o Flatten(Tail(ss))

RECURSIVE SetToSeqs(_)
\* every ordering of a finite set (the iteration orders a HashMap may use)
SetToSeqs(S) ==
  IF S = {} THEN {<<>>}
  ELSE UNION {{<<e>> \o s : s \in SetToSeqs(S \ {e})} : e \in S}

(***************************************************************************)
(* geometry.rs                                                             *)
(***************************************************************************)
\* the two nested loops shared by square and square_without_origin
square_rows(origin, distance) ==
  Flatten([yy \in 1 .. distance |->
     LET y == yy - 1 IN
     [i \in 1 .. 2 * (2 * y + 1) |->
        LET x == (i - 1) \div 2 IN
        IF i % 2 = 1
          THEN <<origin[1] + x - y, origin[2] - distance + y>>
          ELSE <<origin[1] + x - y, origin[2] + distance - y>>]])

square_without_origin(origin, distance) ==
  square_rows(origin, distance)
    \o [i \in 1 .. distance |-> <<origin[1] - distance + (i - 1), origin[2]>>]
    \o [i \in 1 .. distance |-> <<origin[1] + (i - 1) + 1, origin[2]>>]

square(origin, distance) ==
  square_rows(origin, distance)
    \o [i \in 1 .. (2 * distance + 1) |-> <<origin[1] - distance + (i - 1), origin[2]>>]

ring(origin, distance) ==
  IF distance = 0 THEN <<origin>>
  ELSE Flatten([y \in 1 .. distance - 1 |->
         << <<origin[1] - y, origin[2] - distance + y>>,
            <<origin[1] - y, origin[2] + distance - y>>,
            <<origin[1] + y, origin[2] - distance + y>>,
            <<origin[1] + y, origin[2] + distance - y>> >>])
       \o << <<origin[1], origin[2] + distance>>,
             <<origin[1], origin[2] - distance>>,
             <<origin[1] + distance, origin[2]>>,
             <<origin[1] - distance, origin[2]>> >>

\* IterVortex::new; idx counts from 0 as in the source
IterVortex_new(origin) ==
  [origin |-> origin, distance |-> 0, ring |-> <<origin>>, idx |-> 0]

\* Fault variant of IterVortex_next: a new ring is entered with idx 0, so
\* its first coordinate is yielded twice.
IterVortex_next_again(v) ==
  IF v.idx < Len(v.ring)
    THEN [v |-> [v EXCEPT !.idx = @ + 1], item |-> v.ring[v.idx + 1]]
    ELSE LET r == ring(v.origin, v.distance + 1) IN
         [v |-> [v EXCEPT !.distance = @ + 1, !.ring = r, !.idx = 0],
          item |-> r[1]]

\* IterVortex::next: the iterator after the call, and the coordinate yielded
IterVortex_next(v) ==
  IF v.idx < Len(v.ring)
    THEN [v |-> [v EXCEPT !.idx = @ + 1], item |-> v.ring[v.idx + 1]]
    ELSE LET r == ring(v.origin, v.distance + 1) IN
         [v |-> [v EXCEPT !.distance = @ + 1, !.ring = r, !.idx = 1],
          item |-> r[1]]

\* number of coordinates iter_vortex yields before the ring of `distance`
vortex_offset(distance) ==
  IF distance = 0 THEN 0 ELSE 1 + 2 * (distance - 1) * distance

(***************************************************************************)
(* core.rs: Delayer, Identifiable, state_vec_insert, StateHandler          *)
(***************************************************************************)
Delayer_new(delay) == [delay |-> delay, counter |-> 0, total_delayed |-> 0]

Delayer_reset(d) == [d EXCEPT !.total_delayed = @ + d.counter, !.counter = 0]

Delayer_set_delay(d, delay) == [d EXCEPT !.delay = delay]

\* Fault variant of Delayer_wait: the delayer fires only once the counter is
\* above the delay.
Delayer_wait_late(d, dt) ==
  IF d.counter + dt > d.delay
    THEN [d |-> Delayer_reset([d EXCEPT !.counter = @ + dt]), fired |-> TRUE]
    ELSE [d |-> [d EXCEPT !.counter = @ + dt], fired |-> FALSE]

\* wait: the delayer after the call, and whether it fired
Delayer_wait(d, dt) ==
  IF d.counter + dt >= d.delay
    THEN [d |-> Delayer_reset([d EXCEPT !.counter = @ + dt]), fired |-> TRUE]
    ELSE [d |-> [d EXCEPT !.counter = @ + dt], fired |-> FALSE]

\* Fault variant of Is: the sentinel is an id like any other.
Is_plain(self, other) == self.id = other.id

Is(self, other) == self.id # NOT_IDENTIFIABLE /\ self.id = other.id

RECURSIVE State_merge(_, _)
state_vec_insert(states, state) ==
  LET same == {i \in 1 .. Len(states) : Is(states[i], state)} IN
  IF same = {} THEN Append(states, state)
  ELSE [states EXCEPT ![Min(same)] = State_merge(@, state)]

StateHandler_new(blank) == [state |-> blank, is_state |-> FALSE]

\* get_mut followed by the write `Write` of the caller
StateHandler_write(h, new_state) == [state |-> new_state, is_state |-> TRUE]

StateHandler_flush(h) == IF h.is_state THEN Some(h.state) ELSE None

(***************************************************************************)
(* State kinds (partial records).  Every field but the id is an Option.    *)
(***************************************************************************)
TileState_new(tile) ==
  [id |-> tile.id, coord |-> None,
   occupation |-> Some(tile.occupation), owner_id |-> tile.owner_id]

TileState_merge(self, state) ==
  [id |-> self.id,
   coord |-> IF IsSome(state.coord) THEN state.coord ELSE self.coord,
   occupation |-> IF IsSome(state.occupation) THEN state.occupation ELSE self.occupation,
   owner_id |-> IF IsSome(state.owner_id) THEN state.owner_id ELSE self.owner_id]

MapState_new == [tiles |-> <<>>, dead_building |-> <<>>]

ProbeState_new(id) ==
  [id |-> id, death |-> None, pos |-> None, target |-> None, policy |-> None,
   just_created |-> FALSE]

ProbeState_merge(self, state) ==
  [self EXCEPT
     !.death = IF IsSome(state.death) THEN state.death ELSE @,
     !.pos = IF IsSome(state.pos) THEN state.pos ELSE @,
     !.target = IF IsSome(state.target) THEN state.target ELSE @]

create_created_state(pos) ==
  [id |-> NOT_IDENTIFIABLE, death |-> None, pos |-> Some(pos), target |-> None,
   policy |-> Some("Farm"), just_created |-> TRUE]

RECURSIVE InsertProbeStates(_, _)
\* for probe in state.probes { state_vec_insert(&mut self.probes, probe) }
InsertProbeStates(states, news) ==
  IF Len(news) = 0 THEN states
  ELSE InsertProbeStates(state_vec_insert(states, Head(news)), Tail(news))

FactoryState_new(id) == [id |-> id, death |-> None, coord |-> None, probes |-> <<>>]

FactoryState_merge(self, state) ==
  [self EXCEPT
     !.death = IF IsSome(state.death) THEN state.death ELSE @,
     !.coord = IF IsSome(state.coord) THEN state.coord ELSE @,
     !.probes = InsertProbeStates(@, state.probes)]

RECURSIVE InsertFactoryStates(_, _)
InsertFactoryStates(states, news) ==
  IF Len(news) = 0 THEN states
  ELSE InsertFactoryStates(state_vec_insert(states, Head(news)), Tail(news))

TurretState_new(id) == [id |-> id, death |-> None, coord |-> None, shot_id |-> None]

TurretState_merge(self, state) ==
  [self EXCEPT
     !.death = IF IsSome(state.death) THEN state.death ELSE @,
     !.coord = IF IsSome(state.coord) THEN state.coord ELSE @]

RECURSIVE InsertTurretStates(_, _)
InsertTurretStates(states, news) ==
  IF Len(news) = 0 THEN states
  ELSE InsertTurretStates(state_vec_insert(states, Head(news)), Tail(news))

PlayerState_new(id) ==
  [id |-> id, death |-> None, money |-> None, income |-> None, techs |-> <<>>,
   factories |-> <<>>, turrets |-> <<>>]

PlayerState_merge(self, state) ==
  [self EXCEPT
     !.death = IF IsSome(state.death) THEN state.death ELSE @,
     !.money = IF IsSome(state.money) THEN state.money ELSE @,
     !.income = IF IsSome(state.income) THEN state.income ELSE @,
     !.factories = InsertFactoryStates(@, state.factories),
     !.turrets = InsertTurretStates(@, state.turrets)]

\* State::merge of the implementation of the kind of state the vector holds
State_merge(self, state) ==
  CASE "occupation" \in DOMAIN self -> TileState_merge(self, state)
    [] "just_created" \in DOMAIN self -> ProbeState_merge(self, state)
    [] "probes" \in DOMAIN self -> FactoryState_merge(self, state)
    [] "shot_id" \in DOMAIN self -> TurretState_merge(self, state)
    [] "factories" \in DOMAIN self -> PlayerState_merge(self, state)

GameState_new == [map |-> None, players |-> <<>>, game_ended |-> FALSE]

(***************************************************************************)
(* map.rs: Tile and Map                                                    *)
(***************************************************************************)
\* the id generate_unique_id gave the tile of a coord in Map::new
TileId(coord) == 101 + coord[1] * dim_y + coord[2]

Tile_new(coord) ==
  [id |-> TileId(coord), coord |-> coord, occupation |-> 0,
   owner_id |-> None, building_id |-> None]

Tile_get_complete_state(tile) ==
  [id |-> tile.id, coord |-> Some(tile.coord),
   occupation |-> Some(tile.occupation), owner_id |-> tile.owner_id]

is_owned_by(tile, player_id) == tile.owner_id = Some(player_id)

is_owned_by_opponent_of(tile, player_id) ==
  IsSome(tile.owner_id) /\ tile.owner_id # Some(player_id)

can_build(tile, player_id) ==
  /\ tile.building_id = None
  /\ is_owned_by(tile, player_id)
  /\ tile.occupation >= building_occupation_min

incr_occupation(tile, value) ==
  [tile EXCEPT !.occupation =
     IF @ + value < max_occupation THEN @ + value ELSE max_occupation]

\* Fault variant of decr_occupation: the difference is not floored at 0.
decr_occupation_unfloored(tile, value) ==
  [tile EXCEPT !.occupation = @ - value]

decr_occupation(tile, value) ==
  [tile EXCEPT !.occupation = IF @ >= value THEN @ - value ELSE 0]

Map_new ==
  [tiles |-> [c \in Coords |-> Tile_new(c)],
   state_handle |-> StateHandler_new(MapState_new),
   delayer_deprecate |-> Delayer_new(delay_deprecate)]

\* get_tile / get_mut_tile return Some exactly for these coordinates
has_tile(coord) == coord \in Coords

\* tiles in the order Map iterates them (column by column)
TileOrder == [i \in 1 .. dim_x * dim_y |-> <<(i - 1) \div dim_y, (i - 1) % dim_y>>]

Map_get_complete_state(map) ==
  [tiles |-> [i \in 1 .. Len(TileOrder) |-> Tile_get_complete_state(map.tiles[TileOrder[i]])],
   dead_building |-> <<>>]

get_player_occupation(map, player_id) ==
  LET RECURSIVE Sum(_)
      Sum(i) == IF i = 0 THEN 0
                ELSE Sum(i - 1) +
                     (IF is_owned_by(map.tiles[TileOrder[i]], player_id)
                        THEN map.tiles[TileOrder[i]].occupation ELSE 0)
  IN Sum(Len(TileOrder))

\* coordinates of get_neighbour_tiles(tile, distance), as a set
neighbour_coords(coord, distance) ==
  LET coords == square_without_origin(coord, distance) IN
  {coords[i] : i \in 1 .. Len(coords)} \cap Coords

\* Fault variant of is_tile_valid_farm_target: a tile of nobody or of an
\* opponent is valid without a neighbour of the player.
is_tile_valid_farm_target_isolated(map, coord, player_id, cap) ==
  LET tile == map.tiles[coord] IN
  IF tile.occupation = cap THEN FALSE
  ELSE IF ~is_owned_by(tile, player_id)
    THEN tile.occupation <= farm_occupation_max
    ELSE TRUE

\* is_tile_valid_farm_target under a configuration with max_occupation = cap
is_tile_valid_farm_target_capped(map, coord, player_id, cap) ==
  LET tile == map.tiles[coord] IN
  IF tile.occupation = cap THEN FALSE
  ELSE IF ~is_owned_by(tile, player_id)
    THEN IF tile.occupation > farm_occupation_max THEN FALSE
         ELSE \E n \in neighbour_coords(coord, 1) : is_owned_by(map.tiles[n], player_id)
    ELSE TRUE

is_tile_valid_farm_target(map, coord, player_id) ==
  is_tile_valid_farm_target_capped(map, coord, player_id, max_occupation)

\* the results the shuffle of get_close_probe_farm_target can lead to
get_close_probe_farm_target_capped(map, player_id, coord, cap) ==
  LET valid == {c \in neighbour_coords(coord, 3) :
                  is_tile_valid_farm_target_capped(map, c, player_id, cap)}
  IN IF valid = {} THEN {None} ELSE {Some(c) : c \in valid}

get_close_probe_farm_target(map, player_id, coord) ==
  get_close_probe_farm_target_capped(map, player_id, coord, max_occupation)

RECURSIVE farm_target_of_factories_capped(_, _, _, _)
farm_target_of_factories_capped(map, player_id, positions, cap) ==
  IF Len(positions) = 0 THEN {None}
  ELSE LET close == get_close_probe_farm_target_capped(map, player_id, Head(positions), cap) IN
       IF close # {None} THEN close
       ELSE farm_target_of_factories_capped(map, player_id, Tail(positions), cap)

farm_target_of_factories(map, player_id, positions) ==
  farm_target_of_factories_capped(map, player_id, positions, max_occupation)

\* `positions`: the pos of the factories in player.factories at the call
get_probe_farm_target_capped(map, player_id, positions, probe_coord, cap) ==
  LET close == get_close_probe_farm_target_capped(map, player_id, probe_coord, cap) IN
  IF close # {None} THEN close
  ELSE farm_target_of_factories_capped(map, player_id, positions, cap)

get_probe_farm_target(map, player_id, positions, probe_coord) ==
  get_probe_farm_target_capped(map, player_id, positions, probe_coord, max_occupation)

RECURSIVE vortex_seed(_, _, _, _)
\* first of the vortex_limit first vortex coordinates owned by an opponent
vortex_seed(map, player_id, origin, distance) ==
  IF vortex_offset(distance) >= vortex_limit THEN None
  ELSE LET r == ring(origin, distance)
           left == vortex_limit - vortex_offset(distance)
           n == IF Len(r) < left THEN Len(r) ELSE left
           hits == {i \in 1 .. n : /\ has_tile(r[i])
                                    /\ is_owned_by_opponent_of(map.tiles[r[i]], player_id)}
       IN IF hits # {} THEN Some(r[Min(hits)])
          ELSE vortex_seed(map, player_id, origin, distance + 1)

\* Fault variant of get_probe_attack_target: the first tile of the shuffled
\* region is returned, whoever owns it.
get_probe_attack_target_unfiltered(map, player_id, probe_coord) ==
  LET seed == vortex_seed(map, player_id, probe_coord, 0) IN
  IF seed = None THEN {None}
  ELSE {Some(c) : c \in neighbour_coords(Unwrap(seed), 2) \cup {Unwrap(seed)}}

get_probe_attack_target(map, player_id, probe_coord) ==
  LET seed == vortex_seed(map, player_id, probe_coord, 0) IN
  IF seed = None THEN {None}
  ELSE {Some(c) : c \in {c \in neighbour_coords(Unwrap(seed), 2) \cup {Unwrap(seed)} :
                           is_owned_by_opponent_of(map.tiles[c], player_id)}}

\* fault variant of insert_tile_state: the tile state is pushed without
\* looking for an entry of the same id
insert_tile_state_push(map, coord) ==
  [map EXCEPT !.state_handle =
     StateHandler_write(@, [@.state EXCEPT !.tiles =
        Append(@, TileState_new(map.tiles[coord]))])]

insert_tile_state(map, coord) ==
  [map EXCEPT !.state_handle =
     StateHandler_write(@, [@.state EXCEPT !.tiles =
        state_vec_insert(@, TileState_new(map.tiles[coord]))])]

add_dead_building(map, owner, building) ==
  [map EXCEPT !.state_handle =
     StateHandler_write(@, [@.state EXCEPT !.dead_building =
        IF owner \in DOMAIN @ THEN [@ EXCEPT ![owner] = Append(@, building)]
        ELSE @ @@ (owner :> <<building>>)])]

\* the map after claim_tile (unchanged when the call returns false)
claim_tile(map, player_id, coord, intensity) ==
  IF ~has_tile(coord) THEN map
  ELSE
    LET tile == map.tiles[coord]
        conquered == /\ is_owned_by_opponent_of(tile, player_id)
                     /\ decr_occupation(tile, intensity).occupation = 0
        deaths == IF conquered /\ IsSome(tile.building_id)
                    THEN Some(<<Unwrap(tile.owner_id), Unwrap(tile.building_id)>>)
                    ELSE None
        new_tile ==
          IF tile.owner_id = None
            THEN incr_occupation([tile EXCEPT !.owner_id = Some(player_id)], intensity)
          ELSE IF tile.owner_id = Some(player_id)
            THEN incr_occupation(tile, intensity)
          ELSE IF conquered
            THEN [decr_occupation(tile, intensity) EXCEPT !.owner_id = None, !.building_id = None]
          ELSE decr_occupation(tile, intensity)
        map1 == insert_tile_state([map EXCEPT !.tiles[coord] = new_tile], coord)
    IN IF IsSome(deaths) THEN add_dead_building(map1, Unwrap(deaths)[1], Unwrap(deaths)[2])
       ELSE map1

RECURSIVE claim_tiles_from(_, _, _, _, _)
claim_tiles_from(map, player_id, coords, i, intensity) ==
  IF i > Len(coords) THEN map
  ELSE claim_tiles_from(claim_tile(map, player_id, coords[i], intensity),
                        player_id, coords, i + 1, intensity)

\* for coord in coords { map.claim_tile(player_id, coord, intensity) }; the
\* calls out of the map return false and leave it as it is
claim_tiles(map, player_id, coords, intensity) ==
  claim_tiles_from(map, player_id, SelectSeq(coords, has_tile), 1, intensity)

RECURSIVE deprecate_in_order(_, _, _)
deprecate_in_order(map, chosen, i) ==
  IF i > Len(TileOrder) THEN map
  ELSE IF TileOrder[i] \in chosen
    THEN deprecate_in_order(
           insert_tile_state([map EXCEPT !.tiles[TileOrder[i]] = decr_occupation(@, 2)],
                             TileOrder[i]),
           chosen, i + 1)
    ELSE deprecate_in_order(map, chosen, i + 1)

\* prob = (occ - half) / (max_occupation - half) * deprecate_rate, in halves,
\* under a configuration with max_occupation = cap and deprecate_rate = rate
must_deprecate_rated(tile, cap, rate) ==
  /\ 2 * tile.occupation > cap
  /\ (2 * tile.occupation - cap) * rate >= cap

must_deprecate(tile) == must_deprecate_rated(tile, max_occupation, deprecate_rate)

\* random() is in [0, 1): a tile with 0 < prob < 1 may or may not lose occupation
may_deprecate_rated(tile, cap, rate) ==
  /\ 2 * tile.occupation > cap
  /\ rate > 0
  /\ ~must_deprecate_rated(tile, cap, rate)

may_deprecate(tile) == may_deprecate_rated(tile, max_occupation, deprecate_rate)

deprecate_tiles_rated(map, cap, rate) ==
  LET must == {c \in Coords : must_deprecate_rated(map.tiles[c], cap, rate)}
      may == {c \in Coords : may_deprecate_rated(map.tiles[c], cap, rate)}
  IN {deprecate_in_order(map, must \cup chosen, 1) : chosen \in SUBSET may}

deprecate_tiles(map) == deprecate_tiles_rated(map, max_occupation, deprecate_rate)

\* Fault variant of Map_run: the tiles are deprecated in every frame.
Map_run_ungated(map, dt, cap, rate) ==
  deprecate_tiles_rated([map EXCEPT !.delayer_deprecate = Delayer_wait(@, dt).d],
                        cap, rate)

Map_run_rated(map, dt, cap, rate) ==
  LET w == Delayer_wait(map.delayer_deprecate, dt)
      map1 == [map EXCEPT !.delayer_deprecate = w.d]
  IN IF w.fired THEN deprecate_tiles_rated(map1, cap, rate) ELSE {map1}

Map_run(map, dt) == Map_run_rated(map, dt, max_occupation, deprecate_rate)

\* tags the tile with the building
set_new_building(map, coord, building_id) ==
  [map EXCEPT !.tiles[coord].building_id = Some(building_id)]

(***************************************************************************)
(* player.rs: Techs                                                        *)
(***************************************************************************)
Techs ==
  {"PROBE_EXPLOSION_INTENSITY", "PROBE_CLAIM_INTENSITY", "PROBE_HP",
   "FACTORY_BUILD_DELAY", "FACTORY_PROBE_PRICE", "FACTORY_MAX_PROBE",
   "TURRET_SCOPE", "TURRET_FIRE_DELAY", "TURRET_MAINTENANCE_COSTS"}

\* fault variant of is_tech_acquirable: PROBE_HP forgets one technology of its
\* category
is_tech_acquirable_lax(techs, tech) ==
  CASE tech = "PROBE_CLAIM_INTENSITY" ->
         "PROBE_EXPLOSION_INTENSITY" \notin techs /\ "PROBE_HP" \notin techs
    [] tech = "PROBE_EXPLOSION_INTENSITY" ->
         "PROBE_CLAIM_INTENSITY" \notin techs /\ "PROBE_HP" \notin techs
    [] tech = "PROBE_HP" ->
         "PROBE_CLAIM_INTENSITY" \notin techs
    [] tech = "FACTORY_BUILD_DELAY" ->
         "FACTORY_MAX_PROBE" \notin techs /\ "FACTORY_PROBE_PRICE" \notin techs
    [] tech = "FACTORY_MAX_PROBE" ->
         "FACTORY_BUILD_DELAY" \notin techs /\ "FACTORY_PROBE_PRICE" \notin techs
    [] tech = "FACTORY_PROBE_PRICE" ->
         "FACTORY_MAX_PROBE" \notin techs /\ "FACTORY_BUILD_DELAY" \notin techs
    [] tech = "TURRET_FIRE_DELAY" ->
         "TURRET_MAINTENANCE_COSTS" \notin techs /\ "TURRET_SCOPE" \notin techs
    [] tech = "TURRET_MAINTENANCE_COSTS" ->
         "TURRET_FIRE_DELAY" \notin techs /\ "TURRET_SCOPE" \notin techs
    [] tech = "TURRET_SCOPE" ->
         "TURRET_MAINTENANCE_COSTS" \notin techs /\ "TURRET_FIRE_DELAY" \notin techs

is_tech_acquirable(techs, tech) ==
  CASE tech = "PROBE_CLAIM_INTENSITY" ->
         "PROBE_EXPLOSION_INTENSITY" \notin techs /\ "PROBE_HP" \notin techs
    [] tech = "PROBE_EXPLOSION_INTENSITY" ->
         "PROBE_CLAIM_INTENSITY" \notin techs /\ "PROBE_HP" \notin techs
    [] tech = "PROBE_HP" ->
         "PROBE_CLAIM_INTENSITY" \notin techs /\ "PROBE_EXPLOSION_INTENSITY" \notin techs
    [] tech = "FACTORY_BUILD_DELAY" ->
         "FACTORY_MAX_PROBE" \notin techs /\ "FACTORY_PROBE_PRICE" \notin techs
    [] tech = "FACTORY_MAX_PROBE" ->
         "FACTORY_BUILD_DELAY" \notin techs /\ "FACTORY_PROBE_PRICE" \notin techs
    [] tech = "FACTORY_PROBE_PRICE" ->
         "FACTORY_MAX_PROBE" \notin techs /\ "FACTORY_BUILD_DELAY" \notin techs
    [] tech = "TURRET_FIRE_DELAY" ->
         "TURRET_MAINTENANCE_COSTS" \notin techs /\ "TURRET_SCOPE" \notin techs
    [] tech = "TURRET_MAINTENANCE_COSTS" ->
         "TURRET_FIRE_DELAY" \notin techs /\ "TURRET_SCOPE" \notin techs
    [] tech = "TURRET_SCOPE" ->
         "TURRET_MAINTENANCE_COSTS" \notin techs /\ "TURRET_FIRE_DELAY" \notin techs

\* every technology has the same price in the configuration of the model
get_tech_price(tech) == tech_price

(***************************************************************************)
(* probe.rs                                                                *)
(***************************************************************************)
\* get_mut() followed by the assignment of one field of the partial state
handle_set(h, field, value) ==
  [state |-> [h.state EXCEPT ![field] = value], is_state |-> TRUE]

Probe_new(id, techs, pos) ==
  [id |-> id,
   state_handle |-> StateHandler_new(ProbeState_new(id)),
   policy |-> "Farm",
   hp |-> IF "PROBE_HP" \in techs THEN probe_hp + tech_probe_hp_increase ELSE probe_hp,
   target |-> pos,
   pos |-> pos,
   \* direction to the target, before it is normalised and scaled by the speed
   move_dir |-> <<0, 0>>,
   \* the delay of the travel is sqrt(dist2) / probe_speed
   delayer_travel |-> [dist2 |-> 0, counter |-> 0],
   delayer_claim |-> Delayer_new(probe_claim_delay)]

Probe_get_complete_state(probe) ==
  [id |-> probe.id, death |-> None, pos |-> Some(probe.pos),
   target |-> Some(probe.target), policy |-> Some(probe.policy),
   just_created |-> FALSE]

inflict_damage(probe, damage) ==
  IF damage >= probe.hp
    THEN [probe EXCEPT !.hp = 0,
                       !.state_handle = handle_set(@, "death", Some("Shot"))]
    ELSE [probe EXCEPT !.hp = @ - damage]

set_target_manually(probe, target) ==
  LET dx == target[1] - probe.pos[1]
      dy == target[2] - probe.pos[2]
  IN [probe EXCEPT !.target = target,
                   !.move_dir = <<dx, dy>>,
                   !.delayer_travel = [dist2 |-> dx * dx + dy * dy, counter |-> 0]]

\* `positions`: the pos of the factories in player.factories at the call
select_farm_target(probe, player_id, positions, map) ==
  {IF t = None THEN probe
   ELSE set_target_manually(
          IF Unwrap(t) # probe.target
            THEN [probe EXCEPT !.state_handle = handle_set(@, "target", t)]
            ELSE probe,
          Unwrap(t)) :
     t \in get_probe_farm_target(map, player_id, positions, probe.pos)}

select_attack_target(probe, player_id, map) ==
  {IF t = None THEN probe
   ELSE set_target_manually([probe EXCEPT !.state_handle = handle_set(@, "target", t)],
                            Unwrap(t)) :
     t \in get_probe_attack_target(map, player_id, probe.pos)}

set_farm_target(probe, target) ==
  set_target_manually(
    [probe EXCEPT
       !.state_handle =
          handle_set(handle_set(handle_set(@, "pos", Some(probe.pos)),
                                "target", Some(target)),
                     "policy", Some("Farm")),
       !.policy = "Farm"],
    target)

set_attack(probe, player_id, map) ==
  select_attack_target(
    [probe EXCEPT
       !.state_handle = handle_set(handle_set(@, "pos", Some(probe.pos)),
                                   "policy", Some("Attack")),
       !.policy = "Attack"],
    player_id, map)

\* is_target_reached: delayer_travel.wait(dt), counter >= sqrt(dist2) / speed
travel_wait(d, dt, speed) ==
  LET c == d.counter + dt IN
  IF (c * speed) * (c * speed) >= d.dist2
    THEN [d |-> [d EXCEPT !.counter = 0], fired |-> TRUE]
    ELSE [d |-> [d EXCEPT !.counter = c], fired |-> FALSE]

\* largest k with k * k * n <= m
isqrt_div(m, n) == CHOOSE k \in 0 .. m : k * k * n <= m /\ (k + 1) * (k + 1) * n > m

\* one component of as_coord(pos + dt * speed * move_dir / |move_dir|),
\* for a pos that is a coordinate of the map: a truncation toward zero
moved_component(p, m, dist2, dt, speed) ==
  IF dist2 = 0 \/ m = 0 THEN p
  ELSE LET s2 == (dt * speed * m) * (dt * speed * m)
           q == isqrt_div(s2, dist2)
           exact == q * q * dist2 = s2
       IN IF m > 0 THEN p + q
          ELSE IF exact \/ q >= p THEN p - q
          ELSE p - q - 1

\* update_pos; the coordinate the moved pos lies in
update_pos(probe, dt, speed) ==
  [probe EXCEPT !.pos =
     <<moved_component(probe.pos[1], probe.move_dir[1],
                       probe.move_dir[1] * probe.move_dir[1]
                         + probe.move_dir[2] * probe.move_dir[2], dt, speed),
       moved_component(probe.pos[2], probe.move_dir[2],
                       probe.move_dir[1] * probe.move_dir[1]
                         + probe.move_dir[2] * probe.move_dir[2], dt, speed)>>]

RECURSIVE explode_claims_blind(_, _, _, _)
\* Fault variant of explode_claims: every tile of the square is claimed,
\* whoever owns it.
explode_claims_blind(map, player_id, coords, intensity) ==
  IF Len(coords) = 0 THEN map
  ELSE explode_claims_blind(
         IF has_tile(Head(coords))
           THEN claim_tile(map, player_id, Head(coords), intensity)
           ELSE map,
         player_id, Tail(coords), intensity)

RECURSIVE explode_claims(_, _, _, _)
\* the loop of explode over square(coord, 1)
explode_claims(map, player_id, coords, intensity) ==
  IF Len(coords) = 0 THEN map
  ELSE explode_claims(
         IF /\ has_tile(Head(coords))
            /\ is_owned_by_opponent_of(map.tiles[Head(coords)], player_id)
           THEN claim_tile(map, player_id, Head(coords), intensity)
           ELSE map,
         player_id, Tail(coords), intensity)

\* explode: the probe and the map after the call
explode(probe, player_id, map, tech_explosion_intensity) ==
  [probe |-> [probe EXCEPT !.state_handle = handle_set(@, "death", Some("Exploded"))],
   map |-> explode_claims(map, player_id, square(probe.pos, 1),
             IF tech_explosion_intensity
               THEN probe_explosion_intensity + tech_probe_explosion_intensity_increase
               ELSE probe_explosion_intensity)]

Probe_attack(probe, player_id, techs, map) ==
  IF is_owned_by_opponent_of(map.tiles[probe.target], player_id)
    THEN {explode(probe, player_id, map, "PROBE_EXPLOSION_INTENSITY" \in techs)}
    ELSE {[probe |-> p, map |-> map] :
            p \in select_attack_target(
                    [probe EXCEPT !.pos = probe.target,
                                  !.state_handle = handle_set(@, "pos", Some(probe.target))],
                    player_id, map)}

Probe_claim(probe, player_id, techs, positions, map, dt) ==
  LET w == Delayer_wait(probe.delayer_claim, dt)
      p1 == [probe EXCEPT !.delayer_claim = w.d]
      intensity == IF "PROBE_CLAIM_INTENSITY" \in techs
                     THEN probe_claim_intensity + tech_probe_claim_intensity_increase
                     ELSE probe_claim_intensity
      map1 == claim_tile(map, player_id, probe.pos, intensity)
  IN IF w.fired
       THEN {[probe |-> p, map |-> map1] :
               p \in select_farm_target([p1 EXCEPT !.policy = "Farm"],
                                        player_id, positions, map1)}
       ELSE {[probe |-> p1, map |-> map]}

\* the policy step of Probe::run, before the flush
Probe_step_paced(probe, player_id, techs, positions, map, dt, speed) ==
  CASE probe.policy = "Farm" ->
         LET moved == update_pos(probe, dt, speed)
             w == travel_wait(probe.delayer_travel, dt, speed)
             p1 == [moved EXCEPT !.delayer_travel = w.d]
         IN IF w.fired
              THEN {[probe |-> [p1 EXCEPT
                                  !.policy = "Claim",
                                  !.pos = probe.target,
                                  !.state_handle = handle_set(@, "pos", Some(probe.target))],
                     map |-> map]}
              ELSE {[probe |-> p1, map |-> map]}
    [] probe.policy = "Attack" ->
         LET moved == update_pos(probe, dt, speed)
             w == travel_wait(probe.delayer_travel, dt, speed)
             p1 == [moved EXCEPT !.delayer_travel = w.d]
         IN IF w.fired THEN Probe_attack(p1, player_id, techs, map)
            ELSE {[probe |-> p1, map |-> map]}
    [] probe.policy = "Claim" ->
         Probe_claim(probe, player_id, techs, positions, map, dt)

\* the policy step at the configured speed
Probe_step(probe, player_id, techs, positions, map, dt) ==
  Probe_step_paced(probe, player_id, techs, positions, map, dt, probe_speed)

\* Probe::run: the probe, the map and the flushed state
Probe_run_paced(probe, player_id, techs, positions, map, dt, speed) ==
  {[probe |-> [r.probe EXCEPT !.state_handle = StateHandler_new(ProbeState_new(probe.id))],
    map |-> r.map,
    state |-> StateHandler_flush(r.probe.state_handle)] :
     r \in Probe_step_paced(probe, player_id, techs, positions, map, dt, speed)}

Probe_run(probe, player_id, techs, positions, map, dt) ==
  Probe_run_paced(probe, player_id, techs, positions, map, dt, probe_speed)

(***************************************************************************)
(* factory.rs                                                              *)
(***************************************************************************)
\* the elements of a sequence whose index is not in `dead`, in order
RemoveIdxs(seq, dead) ==
  LET RECURSIVE Keep(_)
      Keep(i) == IF i > Len(seq) THEN <<>>
                 ELSE IF i \in dead THEN Keep(i + 1)
                 ELSE <<seq[i]>> \o Keep(i + 1)
  IN Keep(1)

Factory_new(id, pos) ==
  [id |-> id,
   state_handle |-> StateHandler_new(FactoryState_new(id)),
   policy |-> "Expand",
   pos |-> pos,
   probes |-> <<>>,
   expand_step |-> 0,
   delayer_produce |-> Delayer_new(factory_build_probe_delay),
   delayer_expand |-> Delayer_new(delay_expand)]

Factory_get_complete_state(factory) ==
  [id |-> factory.id, death |-> None, coord |-> Some(factory.pos),
   probes |-> [i \in 1 .. Len(factory.probes) |->
                 Probe_get_complete_state(factory.probes[i])]]

attach_probe(factory, probe) == [factory EXCEPT !.probes = Append(@, probe)]

Factory_get_income(factory) ==
  0 - Len(factory.probes) * probe_maintenance_costs - factory_maintenance_costs

get_max_probe(techs) ==
  IF "FACTORY_MAX_PROBE" \in techs
    THEN factory_max_probe + tech_factory_max_probe_increase
    ELSE factory_max_probe

\* fault variant of Factory_die: the probes of the factory get no death
Factory_die_alone(factory, death_cause) ==
  [id |-> factory.id, death |-> Some(death_cause), coord |-> None, probes |-> <<>>]

Factory_die(factory, death_cause) ==
  [id |-> factory.id, death |-> Some(death_cause), coord |-> None,
   probes |-> [i \in 1 .. Len(factory.probes) |->
                 [ProbeState_new(factory.probes[i].id) EXCEPT !.death = Some("Scrapped")]]]

\* Fault variant of Factory_expand_sized: the expansion ends one step early.
Factory_expand_sized_short(factory, player_id, map, dt, expansion_size) ==
  LET w == Delayer_wait(factory.delayer_expand, dt)
      f1 == [factory EXCEPT !.delayer_expand = w.d]
  IN IF ~w.fired THEN [factory |-> f1, map |-> map]
     ELSE IF factory.expand_step + 1 = expansion_size
       THEN [factory |-> [f1 EXCEPT !.expand_step = 0, !.policy = "Produce"], map |-> map]
     ELSE [factory |-> [f1 EXCEPT !.expand_step = @ + 1],
           map |-> claim_tiles(map, player_id,
                               square(factory.pos, factory.expand_step + 1),
                               expand_intensity)]

\* expand of a factory whose config.expansion_size is `expansion_size`: the
\* factory and the map after the call
Factory_expand_sized(factory, player_id, map, dt, expansion_size) ==
  LET w == Delayer_wait(factory.delayer_expand, dt)
      f1 == [factory EXCEPT !.delayer_expand = w.d]
  IN IF ~w.fired THEN [factory |-> f1, map |-> map]
     ELSE IF factory.expand_step + 1 = expansion_size + 1
       THEN [factory |-> [f1 EXCEPT !.expand_step = 0, !.policy = "Produce"], map |-> map]
     ELSE [factory |-> [f1 EXCEPT !.expand_step = @ + 1],
           map |-> claim_tiles(map, player_id,
                               square(factory.pos, factory.expand_step + 1),
                               expand_intensity)]

Factory_expand(factory, player_id, map, dt) ==
  Factory_expand_sized(factory, player_id, map, dt, factory_expansion_size)

Factory_produce(factory, techs, dt) ==
  IF Len(factory.probes) = get_max_probe(techs)
    THEN [factory EXCEPT !.policy = "Wait"]
    ELSE LET w == Delayer_wait(factory.delayer_produce, dt) IN
         IF w.fired
           THEN [factory EXCEPT
                   !.delayer_produce = w.d,
                   !.state_handle = handle_set(@, "probes",
                      Append(@.state.probes, create_created_state(factory.pos)))]
           ELSE [factory EXCEPT !.delayer_produce = w.d]

\* Fault variant of Factory_wait: the factory goes back to Produce.
Factory_wait_eager(factory, techs) == [factory EXCEPT !.policy = "Produce"]

Factory_wait(factory, techs) ==
  IF Len(factory.probes) < get_max_probe(techs)
    THEN [factory EXCEPT !.policy = "Produce"]
    ELSE factory

\* the policy step of Factory::run
Factory_step(factory, player_id, techs, map, dt) ==
  CASE factory.policy = "Expand" -> Factory_expand(factory, player_id, map, dt)
    [] factory.policy = "Produce" ->
         [factory |-> Factory_produce(factory, techs, dt), map |-> map]
    [] factory.policy = "Wait" ->
         [factory |-> Factory_wait(factory, techs), map |-> map]

RECURSIVE Factory_run_probes(_, _, _, _, _, _)
\* the loop of Factory::run over its probes, from probe i on;
\* acc: the factory, the map and the indexes of the dead probes so far
Factory_run_probes(acc, i, player_id, techs, positions, dt) ==
  IF i > Len(acc.factory.probes) THEN {acc}
  ELSE UNION {
    Factory_run_probes(
      [factory |->
         [acc.factory EXCEPT
            !.probes[i] = r.probe,
            !.state_handle =
               IF IsSome(r.state)
                 THEN handle_set(@, "probes",
                        state_vec_insert(@.state.probes, Unwrap(r.state)))
                 ELSE @],
       map |-> r.map,
       dead |-> IF IsSome(r.state) /\ IsSome(Unwrap(r.state).death)
                  THEN acc.dead \cup {i} ELSE acc.dead],
      i + 1, player_id, techs, positions, dt) :
    r \in Probe_run(acc.factory.probes[i], player_id, techs, positions, acc.map, dt)}

\* Factory::run: the factory, the map and the flushed state
Factory_run(factory, player_id, techs, positions, map, dt) ==
  LET s == Factory_step(factory, player_id, techs, map, dt) IN
  {[factory |-> [r.factory EXCEPT
                   !.probes = RemoveIdxs(@, r.dead),
                   !.state_handle = StateHandler_new(FactoryState_new(factory.id))],
    map |-> r.map,
    state |-> StateHandler_flush(r.factory.state_handle)] :
     r \in Factory_run_probes([factory |-> s.factory, map |-> s.map, dead |-> {}],
                              1, player_id, techs, positions, dt)}

(***************************************************************************)
(* turret.rs                                                               *)
(***************************************************************************)
Turret_new(id, pos) ==
  [id |-> id,
   state_handle |-> StateHandler_new(TurretState_new(id)),
   policy |-> "Ready",
   pos |-> pos,
   delayer_fire |-> Delayer_new(turret_fire_delay)]

Turret_get_complete_state(turret) ==
  [id |-> turret.id, death |-> None, coord |-> Some(turret.pos), shot_id |-> None]

Turret_die(turret, death_cause) ==
  [TurretState_new(turret.id) EXCEPT !.death = Some(death_cause)]

get_scope(techs) ==
  IF "TURRET_SCOPE" \in techs THEN turret_scope + tech_turret_scope_increase
  ELSE turret_scope

Turret_get_income(techs) ==
  IF "TURRET_MAINTENANCE_COSTS" \in techs
    THEN 0 - turret_maintenance_costs + tech_turret_maintenance_costs_decrease
    ELSE 0 - turret_maintenance_costs

is_in_range(turret, pos, scope) ==
  LET dx == turret.pos[1] - pos[1]
      dy == turret.pos[2] - pos[2]
  IN dx * dx + dy * dy <= scope * scope

\* the probes of the opponents in range, as <<opponent, factory, probe>> indexes
probes_in_range(turret, techs, opponents) ==
  UNION {UNION {{<<o, f, k>> :
                   k \in {k \in 1 .. Len(opponents[o].factories[f].probes) :
                            is_in_range(turret, opponents[o].factories[f].probes[k].pos,
                                        get_scope(techs))}} :
                f \in 1 .. Len(opponents[o].factories)} :
         o \in 1 .. Len(opponents)}

\* order of the scan of handle_fire_probe
scan_before(a, b) ==
  \/ a[1] < b[1]
  \/ a[1] = b[1] /\ a[2] < b[2]
  \/ a[1] = b[1] /\ a[2] = b[2] /\ a[3] <= b[3]

\* handle_fire_probe: the turret and the opponents after the call
handle_fire_probe(turret, techs, opponents) ==
  LET range == probes_in_range(turret, techs, opponents) IN
  IF range = {} THEN [turret |-> turret, opponents |-> opponents]
  ELSE LET t == CHOOSE a \in range : \A b \in range : scan_before(a, b) IN
       [turret |->
          [turret EXCEPT
             !.state_handle = handle_set(@, "shot_id",
                Some(opponents[t[1]].factories[t[2]].probes[t[3]].id)),
             !.policy = "Wait"],
        opponents |->
          [opponents EXCEPT ![t[1]].factories[t[2]].probes[t[3]] =
             inflict_damage(@, turret_damage)]]

\* Fault variant of Turret_wait: the turret is Ready after one run in Wait.
Turret_wait_hasty(turret, dt) ==
  [turret EXCEPT !.delayer_fire = Delayer_wait(@, dt).d, !.policy = "Ready"]

Turret_wait(turret, dt) ==
  LET w == Delayer_wait(turret.delayer_fire, dt) IN
  IF w.fired THEN [turret EXCEPT !.delayer_fire = w.d, !.policy = "Ready"]
  ELSE [turret EXCEPT !.delayer_fire = w.d]

\* Turret::run: the turret, the opponents and the flushed state
Turret_run(turret, techs, opponents, dt) ==
  LET r == IF turret.policy = "Ready" THEN handle_fire_probe(turret, techs, opponents)
           ELSE [turret |-> Turret_wait(turret, dt), opponents |-> opponents]
  IN [turret |-> [r.turret EXCEPT !.state_handle = StateHandler_new(TurretState_new(turret.id))],
      opponents |-> r.opponents,
      state |-> StateHandler_flush(r.turret.state_handle)]

(***************************************************************************)
(* player.rs                                                               *)
(***************************************************************************)
Player_new(id) ==
  [id |-> id,
   state_handle |-> StateHandler_new(PlayerState_new(id)),
   techs |-> {},
   money |-> initial_money,
   factories |-> <<>>,
   turrets |-> <<>>,
   delayer_income |-> Delayer_new(delay_income)]

\* techs is a HashSet: the snapshot lists it in any order
Player_get_complete_state(player) ==
  {[id |-> player.id, death |-> None, money |-> Some(player.money), income |-> Some(0),
    techs |-> ts,
    factories |-> [i \in 1 .. Len(player.factories) |->
                     Factory_get_complete_state(player.factories[i])],
    turrets |-> [i \in 1 .. Len(player.turrets) |->
                   Turret_get_complete_state(player.turrets[i])]] :
     ts \in SetToSeqs(player.techs)}

Player_die(player, death_cause) ==
  [PlayerState_new(player.id) EXCEPT
     !.factories = [i \in 1 .. Len(player.factories) |->
                      Factory_die(player.factories[i], "Scrapped")],
     !.turrets = [i \in 1 .. Len(player.turrets) |->
                    Turret_die(player.turrets[i], "Scrapped")],
     !.death = Some(death_cause)]

get_probe_price(techs) ==
  IF "FACTORY_PROBE_PRICE" \in techs
    THEN probe_price - tech_factory_probe_price_decrease
    ELSE probe_price

positions_of(factories) == [i \in 1 .. Len(factories) |-> factories[i].pos]

\* create_probe: the new probe (target set) and the completed probe state
create_probe(state, id, player_id, techs, positions, map) ==
  {[probe |-> set_target_manually(Probe_new(id, techs, Unwrap(state.pos)), target),
    state |-> [state EXCEPT !.id = id, !.target = Some(target)]] :
     target \in {IF t = None THEN Unwrap(state.pos) ELSE Unwrap(t) :
                   t \in get_probe_farm_target(map, player_id, positions, Unwrap(state.pos))}}

\* <<factory index, probe index>> of the probe with the id, if there is one
find_probe(player, probe_id) ==
  LET fs == {f \in 1 .. Len(player.factories) :
               \E k \in 1 .. Len(player.factories[f].probes) :
                  player.factories[f].probes[k].id = probe_id}
  IN IF fs = {} THEN None
     ELSE Some(<<Min(fs),
                 Min({k \in 1 .. Len(player.factories[Min(fs)].probes) :
                        player.factories[Min(fs)].probes[k].id = probe_id})>>)

set_probe_target(player, probe_id, target) ==
  LET at == find_probe(player, probe_id) IN
  IF at = None THEN player
  ELSE [player EXCEPT !.factories[Unwrap(at)[1]].probes[Unwrap(at)[2]] =
          set_farm_target(@, target)]

\* explode_probe: the player and the map after the call
explode_probe(player, probe_id, map) ==
  LET at == find_probe(player, probe_id) IN
  IF at = None THEN [player |-> player, map |-> map]
  ELSE LET r == explode(player.factories[Unwrap(at)[1]].probes[Unwrap(at)[2]],
                        player.id, map, "PROBE_EXPLOSION_INTENSITY" \in player.techs)
       IN [player |-> [player EXCEPT !.factories[Unwrap(at)[1]].probes[Unwrap(at)[2]] = r.probe],
           map |-> r.map]

probe_attack(player, probe_id, map) ==
  LET at == find_probe(player, probe_id) IN
  IF at = None THEN {player}
  ELSE {[player EXCEPT !.factories[Unwrap(at)[1]].probes[Unwrap(at)[2]] = p] :
          p \in set_attack(player.factories[Unwrap(at)[1]].probes[Unwrap(at)[2]],
                           player.id, map)}

\* create_factory: the player, the map and the state of the new factory
Player_create_factory(player, id, pos, map) ==
  [player |-> [player EXCEPT !.factories = Append(@, Factory_new(id, pos))],
   map |-> set_new_building(map, pos, id),
   state |-> [FactoryState_new(id) EXCEPT !.coord = Some(pos)]]

\* build_factory when the money suffices
build_factory(player, id, pos, map) ==
  LET paid == [player EXCEPT
                 !.money = @ - factory_price,
                 !.state_handle = handle_set(@, "money", Some(player.money - factory_price))]
      r == Player_create_factory(paid, id, pos, map)
  IN [player |-> [r.player EXCEPT !.state_handle = handle_set(@, "factories",
                     state_vec_insert(@.state.factories, r.state))],
      map |-> r.map]

\* fault variant of kill_factory: the cause handed in is dropped
kill_factory_scrapped(player, idx, death_cause) ==
  [player |-> [player EXCEPT !.factories = RemoveIdxs(@, {idx})],
   state |-> Factory_die(player.factories[idx], "Scrapped")]

\* kill_factory of a factory of the player: the player and the death state
kill_factory(player, idx, death_cause) ==
  [player |-> [player EXCEPT !.factories = RemoveIdxs(@, {idx})],
   state |-> Factory_die(player.factories[idx], death_cause)]

Player_create_turret(player, id, pos, map) ==
  [player |-> [player EXCEPT !.turrets = Append(@, Turret_new(id, pos))],
   map |-> set_new_building(map, pos, id),
   state |-> [TurretState_new(id) EXCEPT !.coord = Some(pos)]]

build_turret(player, id, pos, map) ==
  LET paid == [player EXCEPT
                 !.money = @ - turret_price,
                 !.state_handle = handle_set(@, "money", Some(player.money - turret_price))]
      r == Player_create_turret(paid, id, pos, map)
  IN [player |-> [r.player EXCEPT !.state_handle = handle_set(@, "turrets",
                     state_vec_insert(@.state.turrets, r.state))],
      map |-> r.map]

kill_turret(player, idx, death_cause) ==
  [player |-> [player EXCEPT !.turrets = RemoveIdxs(@, {idx})],
   state |-> Turret_die(player.turrets[idx], death_cause)]

\* whether Player::acquire_tech returns Ok
can_acquire_tech(player, tech) ==
  /\ tech \notin player.techs
  /\ is_tech_acquirable(player.techs, tech)
  /\ player.money >= get_tech_price(tech)

Player_acquire_tech(player, tech) ==
  [player EXCEPT
     !.techs = @ \cup {tech},
     !.money = @ - get_tech_price(tech),
     !.state_handle = handle_set(handle_set(@, "techs", Append(@.state.techs, tech)),
                                 "money", Some(player.money - get_tech_price(tech)))]

RECURSIVE SumIncome(_, _)
SumIncome(factories, i) ==
  IF i = 0 THEN 0 ELSE SumIncome(factories, i - 1) + Factory_get_income(factories[i])

\* Fault variant of update_money: the balance is not clamped at 0.
update_money_unclamped(player, map, dt) ==
  LET w == Delayer_wait(player.delayer_income, dt)
      income == base_income + get_player_occupation(map, player.id) * income_rate
                  + SumIncome(player.factories, Len(player.factories))
                  + Len(player.turrets) * Turret_get_income(player.techs)
      money == player.money + income
  IN IF ~w.fired THEN [player EXCEPT !.delayer_income = w.d]
     ELSE [player EXCEPT
             !.delayer_income = w.d,
             !.money = money,
             !.state_handle = handle_set(handle_set(@, "money", Some(money)),
                                         "income", Some(income))]

update_money(player, map, dt) ==
  LET w == Delayer_wait(player.delayer_income, dt)
      income == base_income + get_player_occupation(map, player.id) * income_rate
                  + SumIncome(player.factories, Len(player.factories))
                  + Len(player.turrets) * Turret_get_income(player.techs)
      money == IF player.money + income > 0 THEN player.money + income ELSE 0
  IN IF ~w.fired THEN [player EXCEPT !.delayer_income = w.d]
     ELSE [player EXCEPT
             !.delayer_income = w.d,
             !.money = money,
             !.state_handle = handle_set(handle_set(@, "money", Some(money)),
                                         "income", Some(income))]

handle_new_techs(player) ==
  LET new_techs == {player.state_handle.state.techs[i] :
                      i \in 1 .. Len(player.state_handle.state.techs)}
  IN [player EXCEPT
        !.factories =
           IF "FACTORY_BUILD_DELAY" \in new_techs
             THEN [i \in 1 .. Len(@) |->
                     [@[i] EXCEPT !.delayer_produce = Delayer_set_delay(@,
                         factory_build_probe_delay - tech_factory_build_delay_decrease)]]
             ELSE @,
        !.turrets =
           IF "TURRET_FIRE_DELAY" \in new_techs
             THEN [i \in 1 .. Len(@) |->
                     [@[i] EXCEPT !.delayer_fire = Delayer_set_delay(@,
                         turret_fire_delay - tech_turret_fire_delay_decrease)]]
             ELSE @]

\* fault variant of handle_lose_condition: the check fires one factory early
handle_lose_condition_early(player) ==
  IF Len(player.factories) <= 1
    THEN [player EXCEPT !.state_handle =
            [state |-> PlayerState_merge(@.state, Player_die(player, "Defeated")),
             is_state |-> TRUE]]
    ELSE player

handle_lose_condition(player) ==
  IF Len(player.factories) = 0
    THEN [player EXCEPT !.state_handle =
            [state |-> PlayerState_merge(@.state, Player_die(player, "Defeated")),
             is_state |-> TRUE]]
    ELSE player

RECURSIVE create_new_probes_on_credit(_, _, _, _, _)
\* Fault variant of create_new_probes: the probe is bought whatever the money.
create_new_probes_on_credit(acc, j, player, price, map) ==
  IF j > Len(acc.state.probes) THEN {acc}
  ELSE IF acc.state.probes[j].just_created /\ IsSome(acc.state.probes[j].pos)
    THEN UNION {
      create_new_probes_on_credit(
        [factory |-> attach_probe(acc.factory, c.probe),
         state |-> [acc.state EXCEPT !.probes[j] = c.state],
         money |-> acc.money - price,
         next_id |-> acc.next_id + 1,
         is_money_change |-> TRUE],
        j + 1, player, price, map) :
      c \in create_probe(acc.state.probes[j], acc.next_id, player.id, player.techs,
                         <<>>, map)}
    ELSE create_new_probes_on_credit(acc, j + 1, player, price, map)

RECURSIVE create_new_probes(_, _, _, _, _)
\* the loop of Player::run over the probe states of one factory state, from j on;
\* acc: the factory, its state, the player's money, the next fresh id and
\* is_money_change.  player.factories is drained while this loop runs.
create_new_probes(acc, j, player, price, map) ==
  IF j > Len(acc.state.probes) THEN {acc}
  ELSE IF acc.state.probes[j].just_created /\ acc.money >= price
            /\ IsSome(acc.state.probes[j].pos)
    THEN UNION {
      create_new_probes(
        [factory |-> attach_probe(acc.factory, c.probe),
         state |-> [acc.state EXCEPT !.probes[j] = c.state],
         money |-> acc.money - price,
         next_id |-> acc.next_id + 1,
         is_money_change |-> TRUE],
        j + 1, player, price, map) :
      c \in create_probe(acc.state.probes[j], acc.next_id, player.id, player.techs,
                         <<>>, map)}
    ELSE create_new_probes(acc, j + 1, player, price, map)

identified(probe_state) == probe_state.id # NOT_IDENTIFIABLE

RECURSIVE Player_run_factories(_, _, _, _)
\* the loop of Player::run over its (drained) factories, from factory i on;
\* acc: the player (money, state_handle), the drained factories, the map, the
\* next fresh id, is_money_change and the indexes of the dead factories
Player_run_factories(acc, i, price, dt) ==
  IF i > Len(acc.factories) THEN {acc}
  ELSE UNION {
    IF r.state = None
      THEN Player_run_factories(
             [acc EXCEPT !.factories[i] = r.factory, !.map = r.map],
             i + 1, price, dt)
      ELSE UNION {
        Player_run_factories(
          [player |->
             [acc.player EXCEPT
                !.money = c.money,
                !.state_handle = handle_set(@, "factories",
                   state_vec_insert(@.state.factories,
                      [c.state EXCEPT !.probes = SelectSeq(@, identified)]))],
           factories |-> [acc.factories EXCEPT ![i] = c.factory],
           map |-> r.map,
           next_id |-> c.next_id,
           is_money_change |-> acc.is_money_change \/ c.is_money_change,
           dead |-> IF IsSome(Unwrap(r.state).death) THEN acc.dead \cup {i} ELSE acc.dead],
          i + 1, price, dt) :
        c \in create_new_probes(
                [factory |-> r.factory, state |-> Unwrap(r.state),
                 money |-> acc.player.money, next_id |-> acc.next_id,
                 is_money_change |-> FALSE],
                1, acc.player, price, r.map)} :
    r \in Factory_run(acc.factories[i], acc.player.id, acc.player.techs, <<>>, acc.map, dt)}

RECURSIVE Player_run_turrets(_, _, _)
\* the loop of Player::run over its turrets, from turret i on;
\* acc: the player, the drained turrets, the opponents and the dead indexes
Player_run_turrets(acc, i, dt) ==
  IF i > Len(acc.turrets) THEN acc
  ELSE LET r == Turret_run(acc.turrets[i], acc.player.techs, acc.opponents, dt) IN
       Player_run_turrets(
         [player |->
            IF r.state = None THEN acc.player
            ELSE [acc.player EXCEPT !.state_handle = handle_set(@, "turrets",
                    state_vec_insert(@.state.turrets, Unwrap(r.state)))],
          turrets |-> [acc.turrets EXCEPT ![i] = r.turret],
          opponents |-> r.opponents,
          dead |-> IF IsSome(r.state) /\ IsSome(Unwrap(r.state).death)
                     THEN acc.dead \cup {i} ELSE acc.dead],
         i + 1, dt)

\* the end of Player::run, from update_money to the flush
Player_run_end(player, is_money_change, map, dt) ==
  LET p1 == handle_lose_condition(handle_new_techs(update_money(player, map, dt)))
      p2 == IF is_money_change
              THEN [p1 EXCEPT !.state_handle = handle_set(@, "money", Some(p1.money))]
              ELSE p1
  IN [player |-> [p2 EXCEPT !.state_handle = StateHandler_new(PlayerState_new(player.id))],
      state |-> StateHandler_flush(p2.state_handle)]

\* Player::run: the player, the map, the opponents, the next fresh id and the
\* flushed state
Player_run(player, map, opponents, next_id, dt) ==
  {LET t == Player_run_turrets(
              [player |-> [f.player EXCEPT !.factories = RemoveIdxs(f.factories, f.dead)],
               turrets |-> player.turrets, opponents |-> opponents, dead |-> {}],
              1, dt)
       e == Player_run_end([t.player EXCEPT !.turrets = RemoveIdxs(t.turrets, t.dead)],
                           f.is_money_change, f.map, dt)
   IN [player |-> e.player, map |-> f.map, opponents |-> t.opponents,
       next_id |-> f.next_id, state |-> e.state] :
     f \in Player_run_factories(
             [player |-> [player EXCEPT !.factories = <<>>],
              factories |-> player.factories, map |-> map, next_id |-> next_id,
              is_money_change |-> FALSE, dead |-> {}],
             1, get_probe_price(player.techs), dt)}

(***************************************************************************)
(* game.rs                                                                 *)
(***************************************************************************)
RemoveAt(seq, i) == RemoveIdxs(seq, {i})

InsertAt(seq, i, e) == SubSeq(seq, 1, i - 1) \o <<e>> \o SubSeq(seq, i, Len(seq))

\* get_start_positions(n_player) for dim = (3, 3): radius 1.5, margin 0.3,
\* (1.2 cos a + 1.5, 1.2 sin a + 1.5) truncated, for a = 0 and a = 3.141592
get_start_positions == << <<2, 1>>, <<0, 1>> >>

\* index of the player with the id in the list, if there is one
player_index(players, player_id) ==
  LET idxs == {i \in 1 .. Len(players) : players[i].id = player_id} IN
  IF idxs = {} THEN None ELSE Some(Min(idxs))

RECURSIVE create_initial_probes(_, _, _)
\* the loop of create_player over initial_n_probes, n probes left to create;
\* acc: the player (its starter factory is the last one), the map, the next id
create_initial_probes(acc, n, pos) ==
  IF n = 0 THEN {acc}
  ELSE UNION {
    create_initial_probes(
      [acc EXCEPT
         !.player.factories[Len(acc.player.factories)] =
            attach_probe(@, IF t = None
                              THEN Probe_new(acc.next_id, acc.player.techs, pos)
                              ELSE set_target_manually(
                                     Probe_new(acc.next_id, acc.player.techs, pos),
                                     Unwrap(t))),
         !.next_id = @ + 1],
      n - 1, pos) :
    t \in get_probe_farm_target(acc.map, acc.player.id,
                                positions_of(acc.player.factories), pos)}

\* create_player: the player, the map and the next fresh id
create_player(id, pos, map, next_id) ==
  LET r == Player_create_factory(Player_new(id), next_id, pos, map) IN
  create_initial_probes([player |-> r.player, map |-> r.map, next_id |-> next_id + 1],
                        initial_n_probes, pos)

RECURSIVE create_players_of(_, _, _, _)
\* the loop of create_players, from the i-th id on
create_players_of(game, player_ids, start_positions, i) ==
  IF i > Len(player_ids) \/ i > Len(start_positions) THEN {game}
  ELSE UNION {
    create_players_of([game EXCEPT !.players = Append(@, r.player),
                                   !.map = r.map,
                                   !.next_id = r.next_id],
                      player_ids, start_positions, i + 1) :
    r \in create_player(player_ids[i], start_positions[i], game.map, game.next_id)}

create_players(game, i) == create_players_of(game, PlayerIds, get_start_positions, i)

Game_new ==
  create_players([state_handle |-> StateHandler_new(GameState_new),
                  map |-> Map_new,
                  players |-> <<>>,
                  next_id |-> FirstUnitId], 1)

\* players lists the snapshot of each player; the HashSet of techs has no order
Game_get_complete_state(game) ==
  {[map |-> Some(Map_get_complete_state(game.map)), players |-> ps, game_ended |-> FALSE] :
     ps \in {ps \in [1 .. Len(game.players) ->
                       UNION {Player_get_complete_state(game.players[i]) :
                                i \in 1 .. Len(game.players)}] :
               \A i \in 1 .. Len(game.players) :
                  ps[i] \in Player_get_complete_state(game.players[i])}}

\* kill_player of the player at idx: the game (player removed) and the state
kill_player(game, idx, death_cause) ==
  [game |-> [game EXCEPT !.players = RemoveAt(@, idx)],
   state |-> Player_die(game.players[idx], death_cause)]

insert_player_state(handle, state) ==
  handle_set(handle, "players",
             state_vec_insert(handle.state.players, state))

RECURSIVE kill_dead_buildings(_, _, _)
\* the inner loop of handle_map_dead_building, from the i-th dead id on;
\* acc: the player and the state that collects the deaths
kill_dead_buildings(acc, dead_ids, i) ==
  IF i > Len(dead_ids) THEN acc
  ELSE LET fs == {f \in 1 .. Len(acc.player.factories) :
                    acc.player.factories[f].id = dead_ids[i]}
           ts == {t \in 1 .. Len(acc.player.turrets) :
                    acc.player.turrets[t].id = dead_ids[i]}
       IN kill_dead_buildings(
            IF fs # {}
              THEN LET k == kill_factory(acc.player, Min(fs), "Conquered") IN
                   [player |-> k.player,
                    state |-> [acc.state EXCEPT !.factories = Append(@, k.state)]]
            ELSE IF ts # {}
              THEN LET k == kill_turret(acc.player, Min(ts), "Conquered") IN
                   [player |-> k.player,
                    state |-> [acc.state EXCEPT !.turrets = Append(@, k.state)]]
            ELSE acc,
            dead_ids, i + 1)

RECURSIVE handle_map_dead_building(_, _, _)
\* `owners`: the keys of dead_building in the order the HashMap iterates them
handle_map_dead_building(game, map_state, owners) ==
  IF Len(owners) = 0 THEN game
  ELSE LET at == player_index(game.players, Head(owners)) IN
       handle_map_dead_building(
         IF at = None THEN game
         ELSE LET k == kill_dead_buildings(
                         [player |-> game.players[Unwrap(at)],
                          state |-> PlayerState_new(Head(owners))],
                         map_state.dead_building[Head(owners)], 1)
              IN [game EXCEPT !.players[Unwrap(at)] = k.player,
                              !.state_handle = insert_player_state(@, k.state)],
         map_state, Tail(owners))

\* fault variant of handle_end_game_condition: an empty game ends too
handle_end_game_condition_empty(game) ==
  IF Len(game.players) <= 1
    THEN [game EXCEPT !.state_handle = handle_set(@, "game_ended", TRUE)]
    ELSE game

handle_end_game_condition(game) ==
  IF Len(game.players) = 1
    THEN [game EXCEPT !.state_handle = handle_set(@, "game_ended", TRUE)]
    ELSE game

RECURSIVE Game_run_players(_, _, _)
\* the loop of Game::run over the players, from player i on;
\* acc: the game and the indexes of the dead players
Game_run_players(acc, i, dt) ==
  IF i > Len(acc.game.players) THEN {acc}
  ELSE UNION {
    Game_run_players(
      [game |->
         [acc.game EXCEPT
            !.players = InsertAt(r.opponents, i, r.player),
            !.map = r.map,
            !.next_id = r.next_id,
            !.state_handle = IF r.state = None THEN @
                             ELSE insert_player_state(@, Unwrap(r.state))],
       dead |-> IF IsSome(r.state) /\ IsSome(Unwrap(r.state).death)
                  THEN acc.dead \cup {i} ELSE acc.dead],
      i + 1, dt) :
    r \in Player_run(acc.game.players[i], acc.game.map,
                     RemoveAt(acc.game.players, i), acc.game.next_id, dt)}

\* Game::run from map.run on: the game after the tick and the returned diff
\* the end of Game::run for one outcome m of Map::run and one order in which
\* the HashMap of dead buildings yields its owners
Game_run_flush(game, m, owners) ==
  LET flushed == StateHandler_flush(m.state_handle)
      g1 == [game EXCEPT !.map = [m EXCEPT !.state_handle = StateHandler_new(MapState_new)]]
      g2 == IF flushed = None THEN handle_end_game_condition(g1)
            ELSE handle_end_game_condition(
                   [handle_map_dead_building(g1, Unwrap(flushed), owners)
                      EXCEPT !.state_handle = handle_set(@, "map", flushed)])
  IN [game |-> [g2 EXCEPT !.state_handle = StateHandler_new(GameState_new)],
      out |-> StateHandler_flush(g2.state_handle)]

\* the orders in which the dead buildings of a flushed map state may be handled
dead_building_orders(m) ==
  IF StateHandler_flush(m.state_handle) = None THEN {<<>>}
  ELSE SetToSeqs(DOMAIN Unwrap(StateHandler_flush(m.state_handle)).dead_building)

Game_run_end(game, dt) ==
  UNION {{Game_run_flush(game, m, owners) : owners \in dead_building_orders(m)} :
           m \in Map_run(game.map, dt)}

\* fault variant of Game_run: the dead players stay in the game
Game_run_keep_dead(game, dt) ==
  UNION {Game_run_end(r.game, dt) :
           r \in Game_run_players([game |-> game, dead |-> {}], 1, dt)}

\* Game::run: the game after the tick and the returned diff
Game_run(game, dt) ==
  UNION {Game_run_end([r.game EXCEPT !.players = RemoveIdxs(@, r.dead)], dt) :
           r \in Game_run_players([game |-> game, dead |-> {}], 1, dt)}

(***************************************************************************)
(* game.rs: the actions block.  Each gives the game after the call and the  *)
(* result, "Ok" or the rejection.                                          *)
(***************************************************************************)
resign_game(game, player_id) ==
  LET at == player_index(game.players, player_id) IN
  IF at = None THEN [game |-> game, res |-> "Invalid player"]
  ELSE LET k == kill_player(game, Unwrap(at), "Resigned") IN
       [game |-> [k.game EXCEPT !.state_handle = insert_player_state(@, k.state)],
        res |-> "Ok"]

Game_create_factory(game, player_id, coord) ==
  LET at == player_index(game.players, player_id) IN
  IF ~has_tile(coord) THEN [game |-> game, res |-> "Tile coordinate is invalid"]
  ELSE IF at = None THEN [game |-> game, res |-> "Invalid player"]
  ELSE IF ~can_build(game.map.tiles[coord], player_id)
    THEN [game |-> game, res |-> "Cannot build on tile"]
  ELSE IF game.players[Unwrap(at)].money < factory_price
    THEN [game |-> game, res |-> "Not enough money"]
  ELSE LET b == build_factory(game.players[Unwrap(at)], game.next_id, coord, game.map) IN
       [game |-> [game EXCEPT !.players[Unwrap(at)] = b.player,
                              !.map = b.map,
                              !.next_id = @ + 1],
        res |-> "Ok"]

Game_create_turret(game, player_id, coord) ==
  LET at == player_index(game.players, player_id) IN
  IF ~has_tile(coord) THEN [game |-> game, res |-> "Tile coordinate is invalid"]
  ELSE IF at = None THEN [game |-> game, res |-> "Invalid player"]
  ELSE IF ~can_build(game.map.tiles[coord], player_id)
    THEN [game |-> game, res |-> "Cannot build on tile"]
  ELSE IF game.players[Unwrap(at)].money < turret_price
    THEN [game |-> game, res |-> "Not enough money"]
  ELSE LET b == build_turret(game.players[Unwrap(at)], game.next_id, coord, game.map) IN
       [game |-> [game EXCEPT !.players[Unwrap(at)] = b.player,
                              !.map = b.map,
                              !.next_id = @ + 1],
        res |-> "Ok"]

RECURSIVE set_probe_targets(_, _, _)
set_probe_targets(player, ids, target) ==
  IF Len(ids) = 0 THEN player
  ELSE set_probe_targets(set_probe_target(player, Head(ids), target), Tail(ids), target)

\* fault variant of move_probes: the targets are set before the owner of the
\* target tile is looked at
move_probes_eager(game, player_id, ids, target) ==
  LET at == player_index(game.players, player_id) IN
  IF ~has_tile(target) THEN [game |-> game, res |-> "Move target is invalid"]
  ELSE IF at = None THEN [game |-> game, res |-> "Invalid player"]
  ELSE [game |-> [game EXCEPT !.players[Unwrap(at)] = set_probe_targets(@, ids, target)],
        res |-> IF is_owned_by_opponent_of(game.map.tiles[target], player_id)
                  THEN "Move target is invalid" ELSE "Ok"]

move_probes(game, player_id, ids, target) ==
  LET at == player_index(game.players, player_id) IN
  IF ~has_tile(target) THEN [game |-> game, res |-> "Move target is invalid"]
  ELSE IF at = None THEN [game |-> game, res |-> "Invalid player"]
  ELSE IF is_owned_by_opponent_of(game.map.tiles[target], player_id)
    THEN [game |-> game, res |-> "Move target is invalid"]
  ELSE [game |-> [game EXCEPT !.players[Unwrap(at)] = set_probe_targets(@, ids, target)],
        res |-> "Ok"]

RECURSIVE explode_probe_ids(_, _)
\* acc: the player and the map
explode_probe_ids(acc, ids) ==
  IF Len(ids) = 0 THEN acc
  ELSE explode_probe_ids(explode_probe(acc.player, Head(ids), acc.map), Tail(ids))

explode_probes(game, player_id, ids) ==
  LET at == player_index(game.players, player_id) IN
  IF at = None THEN [game |-> game, res |-> "Invalid player"]
  ELSE LET r == explode_probe_ids([player |-> game.players[Unwrap(at)], map |-> game.map], ids)
       IN [game |-> [game EXCEPT !.players[Unwrap(at)] = r.player, !.map = r.map],
           res |-> "Ok"]

RECURSIVE probe_attack_ids(_, _, _)
probe_attack_ids(player, ids, map) ==
  IF Len(ids) = 0 THEN {player}
  ELSE UNION {probe_attack_ids(p, Tail(ids), map) : p \in probe_attack(player, Head(ids), map)}

probes_attack(game, player_id, ids) ==
  LET at == player_index(game.players, player_id) IN
  IF at = None THEN {[game |-> game, res |-> "Invalid player"]}
  ELSE {[game |-> [game EXCEPT !.players[Unwrap(at)] = p], res |-> "Ok"] :
          p \in probe_attack_ids(game.players[Unwrap(at)], ids, game.map)}

\* `tech` is the name given to Techs::from_string
acquire_tech(game, player_id, tech) ==
  LET at == player_index(game.players, player_id) IN
  IF at = None THEN [game |-> game, res |-> "Invalid player"]
  ELSE IF tech \notin Techs THEN [game |-> game, res |-> "Invalid tech name"]
  ELSE IF tech \in game.players[Unwrap(at)].techs
    THEN [game |-> game, res |-> "Technology already acquired"]
  ELSE IF ~is_tech_acquirable(game.players[Unwrap(at)].techs, tech)
    THEN [game |-> game, res |-> "Can't acquire multiple technologies of same category"]
  ELSE IF game.players[Unwrap(at)].money < get_tech_price(tech)
    THEN [game |-> game, res |-> "Not enough money"]
  ELSE [game |-> [game EXCEPT !.players[Unwrap(at)] = Player_acquire_tech(@, tech)],
        res |-> "Ok"]

(***************************************************************************)
(* The state machine: a game, the host calling run and the actions.        *)
(***************************************************************************)
VARIABLES
  game,       \* the Game
  out,        \* what the last Game::run returned (None before the first run)
  last,       \* the last call of the host and its result
  n_ticks,    \* number of Game::run calls so far
  n_actions,  \* number of action calls so far
  client,     \* history: the tiles of the snapshot taken at construction with
              \* every returned diff applied
  deaths,     \* history: the deaths the returned diffs carried, with their tick
  born,       \* history: ids of the players and units that have existed
  lost,       \* history: players whose last factory the last run conquered
  zeroed      \* history: <<owner, building>> of the buildings of live players
              \* whose tile an action brought to 0 since the last run

vars == <<game, out, last, n_ticks, n_actions, client, deaths, born, lost, zeroed>>

\* ids of the probes of the game, in the order of the players and factories
ProbeIdSeq(g) ==
  Flatten([i \in 1 .. Len(g.players) |->
    Flatten([f \in 1 .. Len(g.players[i].factories) |->
      [k \in 1 .. Len(g.players[i].factories[f].probes) |->
         g.players[i].factories[f].probes[k].id]])])

\* inputs of the actions: the players; for a building a tile of each start
\* region, the middle tile and a coordinate outside of the map; for a move a
\* start tile, the middle tile and a coordinate outside of the map; one probe
\* or all of them; two technologies of one category and a name that is none
PlayerInputs == {PlayerIds[i] : i \in 1 .. Len(PlayerIds)}
BuildInputs == {<<2, 0>>, <<0, 1>>, <<1, 1>>, <<0 - 1, 0>>}
TargetInputs == {<<0, 1>>, <<1, 1>>, <<0 - 1, 0>>}
IdsInputs(g) == {<<ProbeIdSeq(g)[k]>> : k \in 1 .. Len(ProbeIdSeq(g))} \cup {ProbeIdSeq(g)}
TechInputs == {"PROBE_EXPLOSION_INTENSITY", "PROBE_HP", "PROBE_SPEED"}

\* ids of the players, factories, turrets and probes the game holds
LivePlayers(g) == {g.players[i].id : i \in 1 .. Len(g.players)}

FactoryIds(g) ==
  UNION {{g.players[i].factories[f].id : f \in 1 .. Len(g.players[i].factories)} :
         i \in 1 .. Len(g.players)}

TurretIds(g) ==
  UNION {{g.players[i].turrets[t].id : t \in 1 .. Len(g.players[i].turrets)} :
         i \in 1 .. Len(g.players)}

ProbeIds(g) == {ProbeIdSeq(g)[k] : k \in 1 .. Len(ProbeIdSeq(g))}

LiveIds(g) == LivePlayers(g) \cup FactoryIds(g) \cup TurretIds(g) \cup ProbeIds(g)

\* the player of that id (the player must be live)
PlayerOf(g, id) == g.players[Unwrap(player_index(g.players, id))]

\* the entries a diff (a GameState) holds, by kind
DiffPlayers(d) == {d.players[i] : i \in 1 .. Len(d.players)}
DiffFactories(ps) == {ps.factories[i] : i \in 1 .. Len(ps.factories)}
DiffTurrets(ps) == {ps.turrets[i] : i \in 1 .. Len(ps.turrets)}
DiffProbes(fs) == {fs.probes[i] : i \in 1 .. Len(fs.probes)}
DiffTiles(d) == IF d.map = None THEN {}
                ELSE {Unwrap(d.map).tiles[i] : i \in 1 .. Len(Unwrap(d.map).tiles)}

\* the deaths a diff carries, as <<id, cause>>
DiffDeaths(d) ==
  {<<ps.id, Unwrap(ps.death)>> : ps \in {x \in DiffPlayers(d) : IsSome(x.death)}}
  \cup UNION {
    {<<fs.id, Unwrap(fs.death)>> : fs \in {x \in DiffFactories(ps) : IsSome(x.death)}}
    \cup {<<ts.id, Unwrap(ts.death)>> : ts \in {x \in DiffTurrets(ps) : IsSome(x.death)}}
    \cup UNION {
      {<<bs.id, Unwrap(bs.death)>> : bs \in {x \in DiffProbes(fs) : IsSome(x.death)}} :
      fs \in DiffFactories(ps)} :
    ps \in DiffPlayers(d)}

\* a client applies a tile diff: a present field is set, an absent one is kept
ApplyTile(view, ts) ==
  [occupation |-> IF IsSome(ts.occupation) THEN Unwrap(ts.occupation) ELSE view.occupation,
   owner_id |-> IF IsSome(ts.owner_id) THEN ts.owner_id ELSE view.owner_id]

ApplyDiff(view, o) ==
  IF o = None THEN view
  ELSE [c \in Coords |->
          IF \E ts \in DiffTiles(Unwrap(o)) : ts.id = TileId(c)
            THEN ApplyTile(view[c], CHOOSE ts \in DiffTiles(Unwrap(o)) : ts.id = TileId(c))
            ELSE view[c]]

\* what a client reads of the tiles in a complete snapshot
TilesOfSnapshot(ms) ==
  [c \in Coords |->
     LET ts == CHOOSE t \in {ms.tiles[i] : i \in 1 .. Len(ms.tiles)} : t.id = TileId(c)
     IN [occupation |-> Unwrap(ts.occupation), owner_id |-> ts.owner_id]]

\* players that hold no factory after the run whose diff reports one of their
\* factories conquered
LostLastFactory(g, o) ==
  IF o = None THEN {}
  ELSE {ps.id : ps \in {x \in DiffPlayers(Unwrap(o)) :
                   /\ \E fs \in DiffFactories(x) : fs.death = Some("Conquered")
                   /\ \A i \in 1 .. Len(g.players) :
                        g.players[i].id = x.id => Len(g.players[i].factories) = 0}}

Init ==
  /\ game \in Game_new
  /\ out = None
  /\ last = [op |-> "new", player |-> 0, res |-> "Ok"]
  /\ n_ticks = 0
  /\ n_actions = 0
  /\ client = TilesOfSnapshot(Map_get_complete_state(game.map))
  /\ deaths = {}
  /\ born = LiveIds(game)
  /\ lost = {}
  /\ zeroed = {}

\* the buildings a map state reports dead, as <<owner, building>>
DeadBuildings(ms) ==
  UNION {{<<w, ms.dead_building[w][k]>> : k \in 1 .. Len(ms.dead_building[w])} :
         w \in DOMAIN ms.dead_building}

\* one Game::run
Tick ==
  /\ \E dt \in DtSet : \E r \in Game_run(game, dt) :
       /\ game' = r.game
       /\ out' = r.out
       /\ client' = ApplyDiff(client, r.out)
       /\ deaths' = deaths \cup
            (IF r.out = None THEN {}
             ELSE {[id |-> d[1], cause |-> d[2], tick |-> n_ticks + 1] :
                     d \in DiffDeaths(Unwrap(r.out))})
       /\ born' = born \cup LiveIds(r.game)
       /\ lost' = LostLastFactory(r.game, r.out)
  /\ last' = [op |-> "run", player |-> 0, res |-> "Ok"]
  /\ n_ticks' = n_ticks + 1
  /\ zeroed' = {}
  /\ UNCHANGED n_actions

Acted(r, op, player_id) ==
  /\ game' = r.game
  /\ last' = [op |-> op, player |-> player_id, res |-> r.res]
  /\ n_actions' = n_actions + 1
  /\ born' = born \cup LiveIds(r.game)
  /\ zeroed' = zeroed \cup
       {e \in DeadBuildings(r.game.map.state_handle.state)
               \ DeadBuildings(game.map.state_handle.state) :
          e[1] \in LivePlayers(game)}
  /\ UNCHANGED <<out, n_ticks, client, deaths, lost>>

Resigns == \E p \in PlayerInputs : Acted(resign_game(game, p), "resign_game", p)

Builds(Build(_, _, _), op, coords) ==
  \E p \in PlayerInputs, c \in coords : Acted(Build(game, p, c), op, p)

Moves ==
  \E p \in PlayerInputs, ids \in IdsInputs(game), c \in TargetInputs :
    Acted(move_probes(game, p, ids, c), "move_probes", p)

Explodes ==
  \E p \in PlayerInputs, ids \in IdsInputs(game) :
    Acted(explode_probes(game, p, ids), "explode_probes", p)

Attacks ==
  \E p \in PlayerInputs, ids \in IdsInputs(game) :
    \E r \in probes_attack(game, p, ids) : Acted(r, "probes_attack", p)

Acquires ==
  \E p \in PlayerInputs, t \in TechInputs :
    Acted(acquire_tech(game, p, t), "acquire_tech", p)

Run == n_ticks < MaxTicks /\ Tick

ResignGame == n_actions < MaxActions /\ Resigns

CreateFactory ==
  n_actions < MaxActions /\ Builds(Game_create_factory, "create_factory", BuildInputs)

CreateTurret ==
  n_actions < MaxActions /\ Builds(Game_create_turret, "create_turret", BuildInputs)

MoveProbes == n_actions < MaxActions /\ Moves

ExplodeProbes == n_actions < MaxActions /\ Explodes

ProbesAttack == n_actions < MaxActions /\ Attacks

AcquireTech == n_actions < MaxActions /\ Acquires

Next ==
  \/ Run
  \/ ResignGame
  \/ CreateFactory
  \/ CreateTurret
  \/ MoveProbes
  \/ ExplodeProbes
  \/ ProbesAttack
  \/ AcquireTech

Spec == Init /\ [][Next]_vars

\* a host that only sends probes, explodes them and resigns: fewer ticks,
\* more actions
RaidRun == n_ticks < RaidTicks /\ Tick

RaidResign == n_actions < RaidActions /\ Resigns

RaidMove == n_actions < RaidActions /\ Moves

RaidExplode == n_actions < RaidActions /\ Explodes

RaidNext ==
  \/ RaidRun
  \/ RaidResign
  \/ RaidMove
  \/ RaidExplode

SpecRaid == Init /\ [][RaidNext]_vars

\* a game that only runs, long enough for the factories to fill up
StockRun == n_ticks < StockTicks /\ Tick

SpecStock == Init /\ [][StockRun]_vars

\* a game of two players in which each player sends its own probes between
\* the two factories and explodes them
DuelTarget == <<1, 1>>

DuelRun == n_ticks < DuelTicks /\ Tick

DuelMove ==
  /\ n_actions < DuelActions
  /\ \E i \in 1 .. Len(game.players), id \in ProbeIds(game) :
       /\ IsSome(find_probe(game.players[i], id))
       /\ Acted(move_probes(game, game.players[i].id, <<id>>, DuelTarget),
                "move_probes", game.players[i].id)

DuelExplode ==
  /\ n_actions < DuelActions
  /\ \E i \in 1 .. Len(game.players), id \in ProbeIds(game) :
       /\ IsSome(find_probe(game.players[i], id))
       /\ Acted(explode_probes(game, game.players[i].id, <<id>>),
                "explode_probes", game.players[i].id)

DuelNext ==
  \/ DuelRun
  \/ DuelMove
  \/ DuelExplode

SpecDuel == Init /\ [][DuelNext]_vars

\* a game of three players on the same map, n_player = 3: the start positions
\* are get_start_positions(3) for dim = (3, 3), that is (2.7, 1.5), (0.9, 2.54)
\* and (0.9, 0.46) truncated; the host sends probes and explodes them
TrioIds == <<1, 2, 3>>

trio_start_positions == << <<2, 1>>, <<0, 2>>, <<0, 0>> >>

\* the tile between the start positions of players 2 and 3
TrioTarget == <<0, 1>>

TrioInit ==
  /\ game \in create_players_of([state_handle |-> StateHandler_new(GameState_new),
                                 map |-> Map_new,
                                 players |-> <<>>,
                                 next_id |-> FirstUnitId],
                                TrioIds, trio_start_positions, 1)
  /\ out = None
  /\ last = [op |-> "new", player |-> 0, res |-> "Ok"]
  /\ n_ticks = 0
  /\ n_actions = 0
  /\ client = TilesOfSnapshot(Map_get_complete_state(game.map))
  /\ deaths = {}
  /\ born = LiveIds(game)
  /\ lost = {}
  /\ zeroed = {}

TrioRun == n_ticks < TrioTicks /\ Tick

\* the first player sends one of its probes between the two others; every
\* player explodes its own probes, one at a time
TrioMove ==
  /\ n_actions < TrioActions
  /\ \E id \in ProbeIds(game) :
       /\ IsSome(player_index(game.players, TrioIds[1]))
       /\ IsSome(find_probe(game.players[Unwrap(player_index(game.players, TrioIds[1]))], id))
       /\ Acted(move_probes(game, TrioIds[1], <<id>>, TrioTarget),
                "move_probes", TrioIds[1])

TrioExplode ==
  /\ n_actions < TrioActions
  /\ \E i \in 1 .. Len(game.players), id \in ProbeIds(game) :
       /\ IsSome(find_probe(game.players[i], id))
       /\ Acted(explode_probes(game, game.players[i].id, <<id>>),
                "explode_probes", game.players[i].id)

TrioNext ==
  \/ TrioRun
  \/ TrioMove
  \/ TrioExplode

SpecTrio == TrioInit /\ [][TrioNext]_vars

\* the same three players; the first sends its probes to the middle of the
\* map, the two others build turrets next to it
SiegeTarget == <<1, 1>>

SiegeSites == {<<1, 2>>, <<1, 0>>}

SiegeRun == n_ticks < SiegeTicks /\ Tick

SiegeMove ==
  /\ n_actions < SiegeActions
  /\ \E id \in ProbeIds(game) :
       /\ IsSome(player_index(game.players, TrioIds[1]))
       /\ IsSome(find_probe(game.players[Unwrap(player_index(game.players, TrioIds[1]))], id))
       /\ Acted(move_probes(game, TrioIds[1], <<id>>, SiegeTarget),
                "move_probes", TrioIds[1])

SiegeTurret ==
  /\ n_actions < SiegeActions
  /\ \E p \in {TrioIds[2], TrioIds[3]}, c \in SiegeSites :
       Acted(Game_create_turret(game, p, c), "create_turret", p)

SiegeNext ==
  \/ SiegeRun
  \/ SiegeMove
  \/ SiegeTurret

SpecSiege == TrioInit /\ [][SiegeNext]_vars

(***************************************************************************)
(* A host that starts from any initial_money up to MaxMoney and only       *)
(* acquires technologies, by every name and a name that is none.           *)
(***************************************************************************)
TechNames == Techs \cup {"PROBE_SPEED"}

\* Game::new under a configuration whose initial_money is `money`
Game_new_with_money(money) ==
  {[g EXCEPT !.players = [i \in 1 .. Len(g.players) |-> [g.players[i] EXCEPT !.money = money]]] :
     g \in Game_new}

TechInit ==
  /\ game \in UNION {Game_new_with_money(m) : m \in 0 .. MaxMoney}
  /\ out = None
  /\ last = [op |-> "new", player |-> 0, res |-> "Ok"]
  /\ n_ticks = 0
  /\ n_actions = 0
  /\ client = TilesOfSnapshot(Map_get_complete_state(game.map))
  /\ deaths = {}
  /\ born = LiveIds(game)
  /\ lost = {}
  /\ zeroed = {}

TechRun == n_ticks < TechTicks /\ Tick

TechAcquire ==
  /\ n_actions < TechActions
  /\ \E p \in PlayerInputs, t \in TechNames :
       Acted(acquire_tech(game, p, t), "acquire_tech", p)

TechNext ==
  \/ TechRun
  \/ TechAcquire

SpecTech == TechInit /\ [][TechNext]_vars

(***************************************************************************)
(* A host that starts from an initial_money up to QuietMoney and only      *)
(* runs the game, long enough for the factories to produce.                *)
(***************************************************************************)
QuietInit ==
  /\ game \in UNION {Game_new_with_money(m) : m \in 0 .. QuietMoney}
  /\ out = None
  /\ last = [op |-> "new", player |-> 0, res |-> "Ok"]
  /\ n_ticks = 0
  /\ n_actions = 0
  /\ client = TilesOfSnapshot(Map_get_complete_state(game.map))
  /\ deaths = {}
  /\ born = LiveIds(game)
  /\ lost = {}
  /\ zeroed = {}

QuietRun == n_ticks < QuietTicks /\ Tick

SpecQuiet == QuietInit /\ [][QuietRun]_vars

(***************************************************************************)
(* Map::claim_tile applied on its own, to the map of a new game and to     *)
(* whatever maps earlier calls left, with coordinates in and out of the    *)
(* map and intensities up to ClaimIntensity.                               *)
(***************************************************************************)
OutCoords == {<<0 - 1, 1>>, <<dim_x, 1>>, <<1, 0 - 1>>, <<1, dim_y>>}

\* the value claim_tile returns
claim_tile_returns(map, coord) == has_tile(coord)

ClaimTile ==
  /\ n_actions < ClaimSteps
  /\ \E p \in {game.players[i].id : i \in 1 .. Len(game.players)} :
     \E c \in Coords \cup OutCoords :
     \E k \in 0 .. ClaimIntensity :
       /\ game' = [game EXCEPT !.map = claim_tile(@, p, c, k)]
       /\ last' = [op |-> "claim_tile", player |-> p,
                   res |-> IF claim_tile_returns(game.map, c) THEN "true" ELSE "false",
                   coord |-> c, intensity |-> k]
  /\ n_actions' = n_actions + 1
  /\ UNCHANGED <<out, n_ticks, client, deaths, born, lost, zeroed>>

SpecClaim == Init /\ [][ClaimTile]_vars

(***************************************************************************)
(* Factory::expand applied on its own to the starter factory of one        *)
(* player, for a config with expansion_size = ExpandSize.  Time is counted *)
(* in units of 1 / ExpandUnit of the 0.5 s of the expand gate; the dt of   *)
(* the run is one of the divisors of the gate's delay and stays the same.  *)
(* n_ticks is the time accumulated, in units.                              *)
(***************************************************************************)
ExpandDts == {d \in 1 .. ExpandUnit : ExpandUnit % d = 0}

ExpandHorizon == (ExpandSize + 2) * ExpandUnit

PlayerIdx(g, player_id) ==
  CHOOSE i \in 1 .. Len(g.players) : g.players[i].id = player_id

\* the factory under observation
ExpandFactory == game.players[PlayerIdx(game, last.player)].factories[1]

ExpandInit ==
  /\ \E p \in PlayerInputs : \E d \in ExpandDts :
       \E g \in Game_new :
         /\ game = [g EXCEPT !.players[PlayerIdx(g, p)].factories[1].delayer_expand =
                                Delayer_new(ExpandUnit)]
         /\ last = [op |-> "new", player |-> p, res |-> "Ok", dt |-> d]
  /\ out = None
  /\ n_ticks = 0
  /\ n_actions = 0
  /\ client = TilesOfSnapshot(Map_get_complete_state(game.map))
  /\ deaths = {}
  /\ born = LiveIds(game)
  /\ lost = {}
  /\ zeroed = {}

ExpandStep ==
  /\ n_ticks + last.dt <= ExpandHorizon
  /\ LET i == PlayerIdx(game, last.player)
         r == IF ExpandFactory.policy = "Expand"
                THEN Factory_expand_sized(ExpandFactory, last.player, game.map,
                                          last.dt, ExpandSize)
                ELSE [factory |-> ExpandFactory, map |-> game.map]
     IN game' = [game EXCEPT !.players[i].factories[1] = r.factory, !.map = r.map]
  /\ last' = [last EXCEPT !.op = "expand"]
  /\ n_ticks' = n_ticks + last.dt
  /\ UNCHANGED <<out, n_actions, client, deaths, born, lost, zeroed>>

SpecExpand == ExpandInit /\ [][ExpandStep]_vars

(***************************************************************************)
(* A host that starts from any initial_money up to MaxMoney, acquires the  *)
(* two technologies that shorten a gate and builds turrets and factories.  *)
(***************************************************************************)
ArmTechs == {"TURRET_FIRE_DELAY", "FACTORY_BUILD_DELAY"}

ArmRun == n_ticks < ArmTicks /\ Tick

ArmAcquire ==
  /\ n_actions < ArmActions
  /\ \E p \in PlayerInputs, t \in ArmTechs :
       Acted(acquire_tech(game, p, t), "acquire_tech", p)

ArmTurret ==
  n_actions < ArmActions /\ Builds(Game_create_turret, "create_turret", BuildInputs)

ArmFactory ==
  n_actions < ArmActions /\ Builds(Game_create_factory, "create_factory", BuildInputs)

ArmNext ==
  \/ ArmRun
  \/ ArmAcquire
  \/ ArmTurret
  \/ ArmFactory

SpecArm == TechInit /\ [][ArmNext]_vars

(***************************************************************************)
(* map.rs, game.rs: MapState::merge and GameState::merge                   *)
(***************************************************************************)
RECURSIVE state_vec_insert_all(_, _)
\* for state in news { state_vec_insert(states, state) }
state_vec_insert_all(states, news) ==
  IF Len(news) = 0 THEN states
  ELSE state_vec_insert_all(state_vec_insert(states, Head(news)), Tail(news))

MapState_merge(self, state) ==
  [tiles |-> state_vec_insert_all(self.tiles, state.tiles),
   dead_building |->
     [o \in DOMAIN self.dead_building \cup DOMAIN state.dead_building |->
        (IF o \in DOMAIN self.dead_building THEN self.dead_building[o] ELSE <<>>)
          \o (IF o \in DOMAIN state.dead_building THEN state.dead_building[o] ELSE <<>>)]]

GameState_merge(self, state) ==
  [self EXCEPT
     !.map = IF IsSome(@) /\ IsSome(state.map)
               THEN Some(MapState_merge(Unwrap(@), Unwrap(state.map)))
             ELSE IF IsSome(state.map) THEN state.map
             ELSE @,
     !.players = state_vec_insert_all(@, state.players)]

(***************************************************************************)
(* State::merge applied to pairs of partial states of every kind, drawn   *)
(* from small sets: the pair is chosen at the start and merged in one      *)
(* step.                                                                   *)
(***************************************************************************)
OptOf(S) == {None} \cup {Some(v) : v \in S}

UpToOne(S) == {<<>>} \cup {<<s>> : s \in S}

MergeTiles ==
  [id : {TileId(<<0, 0>>)}, coord : OptOf({<<0, 0>>}), occupation : OptOf({0, MergeMoney}),
   owner_id : OptOf({1, 2})]

MergeProbes ==
  [id : {FirstUnitId + 1}, death : OptOf({"Exploded"}), pos : OptOf({<<0, 0>>, <<0, 1>>}),
   target : OptOf({<<1, 1>>}), policy : OptOf({"Farm", "Attack"}), just_created : {FALSE}]

MergeTurrets ==
  [id : {FirstUnitId + 4}, death : OptOf({"Conquered"}), coord : OptOf({<<0, 0>>}),
   shot_id : OptOf({FirstUnitId + 1, FirstUnitId + 3})]

MergeFactories ==
  [id : {FirstUnitId}, death : OptOf({"Conquered"}), coord : OptOf({<<2, 1>>}),
   probes : UpToOne({p \in MergeProbes :
                       p.death = None /\ p.target = None /\ p.pos # Some(<<0, 1>>)})]

MergePlayers ==
  [id : {1}, death : OptOf({"Resigned"}), money : OptOf({MergeMoney}), income : {None},
   techs : UpToOne({"PROBE_HP"}),
   factories : UpToOne({f \in MergeFactories : f.death = None /\ Len(f.probes) = 0}),
   turrets : UpToOne({t \in MergeTurrets : t.death = None /\ t.coord = None})]

MergeGames ==
  [map : OptOf({[tiles |-> ts, dead_building |-> <<>>] :
                  ts \in UpToOne({t \in MergeTiles : t.coord = None /\ t.owner_id = Some(1)})}),
   players : UpToOne({p \in MergePlayers :
                        p.death = None /\ p.factories = <<>> /\ p.turrets = <<>>}),
   game_ended : BOOLEAN]

MergePairs ==
  UNION {{[kind |-> "Tile", a |-> a, b |-> b] : a, b \in MergeTiles},
         {[kind |-> "Probe", a |-> a, b |-> b] : a, b \in MergeProbes},
         {[kind |-> "Turret", a |-> a, b |-> b] : a, b \in MergeTurrets},
         {[kind |-> "Factory", a |-> a, b |-> b] : a, b \in MergeFactories},
         {[kind |-> "Player", a |-> a, b |-> b] : a, b \in MergePlayers},
         {[kind |-> "Game", a |-> a, b |-> b] : a, b \in MergeGames}}

MergeInit ==
  /\ game \in Game_new
  /\ out = None
  /\ \E pair \in MergePairs :
       last = [op |-> "new", player |-> 0, res |-> "Ok",
               kind |-> pair.kind, a |-> pair.a, b |-> pair.b]
  /\ n_ticks = 0
  /\ n_actions = 0
  /\ client = TilesOfSnapshot(Map_get_complete_state(game.map))
  /\ deaths = {}
  /\ born = LiveIds(game)
  /\ lost = {}
  /\ zeroed = {}

\* self.merge(state) for self = last.a and state = last.b
MergeStep ==
  /\ last.op = "new"
  /\ last' = [last EXCEPT
                !.op = "merge",
                !.res = IF last.kind = "Game" THEN GameState_merge(last.a, last.b)
                        ELSE State_merge(last.a, last.b)]
  /\ n_actions' = n_actions + 1
  /\ UNCHANGED <<game, out, n_ticks, client, deaths, born, lost, zeroed>>

SpecMerge == MergeInit /\ [][MergeStep]_vars

(***************************************************************************)
(* A game of three players on the start positions that a configuration    *)
(* with n_player = 5 gives on the 3 x 3 map: get_start_positions(5) is     *)
(* (1.2 cos a + 1.5, 1.2 sin a + 1.5) truncated for a = 0, 2 pi / 5,       *)
(* 4 pi / 5, ..., and create_players zips the ids with the positions, so   *)
(* that three ids take the first three.  The positions are distinct and    *)
(* the last two are neighbours.  The players build turrets.                *)
(***************************************************************************)
crowd_start_positions == << <<2, 1>>, <<1, 2>>, <<0, 2>> >>

CrowdInit ==
  /\ game \in create_players_of([state_handle |-> StateHandler_new(GameState_new),
                                 map |-> Map_new,
                                 players |-> <<>>,
                                 next_id |-> FirstUnitId],
                                TrioIds, crowd_start_positions, 1)
  /\ out = None
  /\ last = [op |-> "new", player |-> 0, res |-> "Ok"]
  /\ n_ticks = 0
  /\ n_actions = 0
  /\ client = TilesOfSnapshot(Map_get_complete_state(game.map))
  /\ deaths = {}
  /\ born = LiveIds(game)
  /\ lost = {}
  /\ zeroed = {}

CrowdRun == n_ticks < CrowdTicks /\ Tick

CrowdTurret ==
  /\ n_actions < CrowdActions
  /\ \E i \in 1 .. Len(TrioIds) :
     \E k \in 1 .. Len(crowd_start_positions) :
       Acted(Game_create_turret(game, TrioIds[i], crowd_start_positions[k]),
             "create_turret", TrioIds[i])

CrowdNext ==
  \/ CrowdRun
  \/ CrowdTurret

SpecCrowd == CrowdInit /\ [][CrowdNext]_vars


(***************************************************************************)
(* map.rs: Map::get_probe_attack_target applied on its own, for a probe of *)
(* either player on the map or far from it (so far that a tile of the map  *)
(* is the 1000th coordinate of the vortex, or beyond it), on maps where    *)
(* the tiles of the diagonal are owned by nobody, by player 1 or by        *)
(* player 2.  The inputs are in last.map, last.player and last.coord.      *)
(***************************************************************************)
AimTiles == {<<0, 0>>, <<1, 1>>, <<2, 2>>}

\* (0,0) is the 1000th vortex coordinate of the first far coordinate and is
\* beyond the 1000th of the second
AimCoords == {<<1, 1>>, <<0, 0>>, <<0 - 19, 3>>, <<0 - 20, 3>>}

AimMaps ==
  {[Map_new EXCEPT !.tiles =
      [c \in Coords |->
         IF c \in AimTiles /\ IsSome(owner[c])
           THEN [Tile_new(c) EXCEPT !.owner_id = owner[c], !.occupation = 1]
           ELSE Tile_new(c)]] :
     owner \in [AimTiles -> {None} \cup {Some(PlayerIds[i]) : i \in 1 .. Len(PlayerIds)}]}

AimInit ==
  /\ game = [state_handle |-> StateHandler_new(GameState_new),
             map |-> Map_new,
             players |-> <<>>,
             next_id |-> FirstUnitId]
  /\ out = None
  /\ \E map \in AimMaps : \E c \in AimCoords : \E i \in 1 .. Len(PlayerIds) :
       last = [op |-> "new", player |-> PlayerIds[i], res |-> None,
               map |-> map, coord |-> c]
  /\ n_ticks = 0
  /\ n_actions = 0
  /\ client = TilesOfSnapshot(Map_get_complete_state(game.map))
  /\ deaths = {}
  /\ born = LiveIds(game)
  /\ lost = {}
  /\ zeroed = {}

\* map.get_probe_attack_target(player_id, probe) for a probe at last.coord
AimStep ==
  /\ last.op = "new"
  /\ \E t \in get_probe_attack_target(last.map, last.player, last.coord) :
       last' = [last EXCEPT !.op = "get_probe_attack_target", !.res = t]
  /\ n_actions' = n_actions + 1
  /\ UNCHANGED <<game, out, n_ticks, client, deaths, born, lost, zeroed>>

SpecAim == AimInit /\ [][AimStep]_vars


(***************************************************************************)
(* map.rs: Map::get_probe_farm_target applied on its own, for a probe of   *)
(* player 1 on the map or out of it, with no, one or two factories, under  *)
(* a configuration with max_occupation = FarmCap so that a tile can hold   *)
(* more than 3.  Four tiles vary; the others are full tiles of player 2,   *)
(* which are no farm targets.  The inputs are in last.map, last.coord and  *)
(* last.positions.                                                         *)
(***************************************************************************)
FarmTiles == {<<0, 0>>, <<1, 0>>, <<2, 0>>, <<2, 2>>}

\* nobody's tile, a tile and a full tile of the player, a tile of the opponent
\* at an occupation of at most 3 and one above 3
FarmTileKinds ==
  {[owner_id |-> None, occupation |-> 0],
   [owner_id |-> Some(PlayerIds[1]), occupation |-> 1],
   [owner_id |-> Some(PlayerIds[1]), occupation |-> FarmCap],
   [owner_id |-> Some(PlayerIds[2]), occupation |-> 2],
   [owner_id |-> Some(PlayerIds[2]), occupation |-> FarmCap - 1]}

FarmMaps ==
  {[Map_new EXCEPT !.tiles =
      [c \in Coords |->
         IF c \in FarmTiles
           THEN [Tile_new(c) EXCEPT !.owner_id = kind[c].owner_id,
                                    !.occupation = kind[c].occupation]
           ELSE [Tile_new(c) EXCEPT !.owner_id = Some(PlayerIds[2]),
                                    !.occupation = FarmCap]]] :
     kind \in [FarmTiles -> FarmTileKinds]}

FarmCoords == {<<0, 0>>, <<1, 0>>, <<5, 0>>}

FarmPositions == {<<>>, << <<2, 1>> >>, << <<0, 1>>, <<2, 1>> >>}

FarmInit ==
  /\ game = [state_handle |-> StateHandler_new(GameState_new),
             map |-> Map_new,
             players |-> <<>>,
             next_id |-> FirstUnitId]
  /\ out = None
  /\ \E map \in FarmMaps : \E c \in FarmCoords : \E positions \in FarmPositions :
       last = [op |-> "new", player |-> PlayerIds[1], res |-> None,
               map |-> map, coord |-> c, positions |-> positions]
  /\ n_ticks = 0
  /\ n_actions = 0
  /\ client = TilesOfSnapshot(Map_get_complete_state(game.map))
  /\ deaths = {}
  /\ born = LiveIds(game)
  /\ lost = {}
  /\ zeroed = {}

\* map.get_probe_farm_target(player, probe) for a probe at last.coord
FarmStep ==
  /\ last.op = "new"
  /\ \E t \in get_probe_farm_target_capped(last.map, last.player, last.positions,
                                           last.coord, FarmCap) :
       last' = [last EXCEPT !.op = "get_probe_farm_target", !.res = t]
  /\ n_actions' = n_actions + 1
  /\ UNCHANGED <<game, out, n_ticks, client, deaths, born, lost, zeroed>>

SpecFarm == FarmInit /\ [][FarmStep]_vars


(***************************************************************************)
(* map.rs: Map::run applied on its own, frame after frame, under a         *)
(* configuration with max_occupation = last.cap (1 or max_occupation) and  *)
(* deprecate_rate = last.rate (1, where a tile that is not full may or may *)
(* not be chosen, or deprecate_rate).  The map is in last.map, the map     *)
(* before the frame in last.map_before, the dt of the frame in last.dt and *)
(* the sum of the dt since the map was created in last.elapsed.            *)
(***************************************************************************)
DecayCaps == {1, max_occupation}

DecayRates == {1, deprecate_rate}

DecayTiles == {<<0, 0>>, <<1, 1>>, <<2, 2>>}

\* nobody's tile, a tile of player 1 at occupation 1, a full tile of player 1
\* with a building, a tile of player 2 one below full
DecayTileKinds(cap) ==
  {[owner_id |-> None, occupation |-> 0, building_id |-> None],
   [owner_id |-> Some(PlayerIds[1]), occupation |-> 1, building_id |-> None],
   [owner_id |-> Some(PlayerIds[1]), occupation |-> cap,
    building_id |-> Some(FirstUnitId)],
   [owner_id |-> Some(PlayerIds[2]), occupation |-> cap - 1, building_id |-> None]}

DecayMaps(cap) ==
  {[Map_new EXCEPT !.tiles =
      [c \in Coords |->
         IF c \in DecayTiles
           THEN [Tile_new(c) EXCEPT !.owner_id = kind[c].owner_id,
                                    !.occupation = kind[c].occupation,
                                    !.building_id = kind[c].building_id]
           ELSE Tile_new(c)]] :
     kind \in [DecayTiles -> DecayTileKinds(cap)]}

DecayInit ==
  /\ game = [state_handle |-> StateHandler_new(GameState_new),
             map |-> Map_new,
             players |-> <<>>,
             next_id |-> FirstUnitId]
  /\ out = None
  /\ \E cap \in DecayCaps : \E rate \in DecayRates : \E map \in DecayMaps(cap) :
       last = [op |-> "new", player |-> 0, res |-> "Ok",
               map |-> map, map_before |-> map, cap |-> cap, rate |-> rate,
               dt |-> 0, elapsed |-> 0]
  /\ n_ticks = 0
  /\ n_actions = 0
  /\ client = TilesOfSnapshot(Map_get_complete_state(game.map))
  /\ deaths = {}
  /\ born = LiveIds(game)
  /\ lost = {}
  /\ zeroed = {}

\* map.run(dt)
DecayRun ==
  /\ n_ticks < DecaySteps
  /\ \E dt \in DtSet :
     \E m \in Map_run_rated(last.map, dt, last.cap, last.rate) :
       last' = [last EXCEPT !.op = "run", !.map = m, !.map_before = last.map,
                            !.dt = dt, !.elapsed = @ + dt]
  /\ n_ticks' = n_ticks + 1
  /\ UNCHANGED <<game, out, n_actions, client, deaths, born, lost, zeroed>>

SpecDecay == DecayInit /\ [][DecayRun]_vars


(***************************************************************************)
(* core.rs: a Delayer with a delay of 1 to DelayMax driven by any sequence *)
(* of wait (with a dt of 1 or 2), reset and set_delay.  The delayer is in  *)
(* last.d, the delayer before the call in last.before, the dt of a wait in *)
(* last.dt, the value wait returned in last.res and the sum of the dt      *)
(* passed to wait so far in last.sum.                                      *)
(***************************************************************************)
DelayDts == {1, 2}

DelayInit ==
  /\ game = [state_handle |-> StateHandler_new(GameState_new),
             map |-> Map_new,
             players |-> <<>>,
             next_id |-> FirstUnitId]
  /\ out = None
  /\ \E delay \in 1 .. DelayMax :
       last = [op |-> "new", player |-> 0, res |-> FALSE,
               d |-> Delayer_new(delay), before |-> Delayer_new(delay),
               dt |-> 0, sum |-> 0]
  /\ n_ticks = 0
  /\ n_actions = 0
  /\ client = TilesOfSnapshot(Map_get_complete_state(game.map))
  /\ deaths = {}
  /\ born = LiveIds(game)
  /\ lost = {}
  /\ zeroed = {}

DelayDone ==
  /\ n_actions' = n_actions + 1
  /\ UNCHANGED <<game, out, n_ticks, client, deaths, born, lost, zeroed>>

\* delayer.wait(dt)
DelayWait ==
  /\ n_actions < DelaySteps
  /\ \E dt \in DelayDts :
       last' = [last EXCEPT !.op = "wait", !.before = last.d,
                            !.d = Delayer_wait(last.d, dt).d,
                            !.res = Delayer_wait(last.d, dt).fired,
                            !.dt = dt, !.sum = @ + dt]
  /\ DelayDone

\* delayer.reset()
DelayReset ==
  /\ n_actions < DelaySteps
  /\ last' = [last EXCEPT !.op = "reset", !.before = last.d,
                          !.d = Delayer_reset(last.d), !.res = FALSE, !.dt = 0]
  /\ DelayDone

\* delayer.set_delay(delay)
DelaySetDelay ==
  /\ n_actions < DelaySteps
  /\ \E delay \in 1 .. DelayMax :
       last' = [last EXCEPT !.op = "set_delay", !.before = last.d,
                            !.d = Delayer_set_delay(last.d, delay),
                            !.res = FALSE, !.dt = 0]
  /\ DelayDone

DelayNext ==
  \/ DelayWait
  \/ DelayReset
  \/ DelaySetDelay

SpecDelay == DelayInit /\ [][DelayNext]_vars


(***************************************************************************)
(* geometry.rs: iter_vortex of an origin advanced coordinate after         *)
(* coordinate, and square, square_without_origin and ring applied to the   *)
(* origin with a distance of 0 to ShapeMax.  The iterator is in last.v,    *)
(* the coordinates it has yielded in last.yielded, the distance of the     *)
(* last shapes in last.d and the shapes in last.square,                    *)
(* last.square_without_origin and last.ring.                               *)
(***************************************************************************)
VortexOrigins == {<<0, 0>>, <<1, 2>>, <<0 - 3, 1>>}

VortexInit ==
  /\ game = [state_handle |-> StateHandler_new(GameState_new),
             map |-> Map_new,
             players |-> <<>>,
             next_id |-> FirstUnitId]
  /\ out = None
  /\ \E origin \in VortexOrigins :
       last = [op |-> "new", player |-> 0, res |-> FALSE,
               origin |-> origin, v |-> IterVortex_new(origin),
               yielded |-> <<>>, d |-> 0,
               square |-> <<>>, square_without_origin |-> <<>>, ring |-> <<>>]
  /\ n_ticks = 0
  /\ n_actions = 0
  /\ client = TilesOfSnapshot(Map_get_complete_state(game.map))
  /\ deaths = {}
  /\ born = LiveIds(game)
  /\ lost = {}
  /\ zeroed = {}

\* iterator.next()
VortexNext ==
  /\ n_actions < VortexSteps
  /\ last' = [last EXCEPT !.op = "next",
                          !.v = IterVortex_next(last.v).v,
                          !.yielded = Append(@, IterVortex_next(last.v).item)]
  /\ n_actions' = n_actions + 1
  /\ UNCHANGED <<game, out, n_ticks, client, deaths, born, lost, zeroed>>

\* square, square_without_origin and ring of the origin with one distance
VortexShapes ==
  /\ \E d \in 0 .. ShapeMax :
       last' = [last EXCEPT !.op = "shapes", !.d = d,
                            !.square = square(last.origin, d),
                            !.square_without_origin =
                               square_without_origin(last.origin, d),
                            !.ring = ring(last.origin, d)]
  /\ UNCHANGED <<game, out, n_ticks, n_actions, client, deaths, born, lost, zeroed>>

VortexStep ==
  \/ VortexNext
  \/ VortexShapes

SpecVortex == VortexInit /\ [][VortexStep]_vars


(***************************************************************************)
(* probe.rs: Probe::run of one probe of player 1, frame after frame, at    *)
(* ProbePace tiles per tick, so that a travel can take several frames.     *)
(* The probe and the map are in last.probe and last.map, the probe and the *)
(* map before the frame in last.before and last.map_before, the dt of the  *)
(* frame in last.dt.  The probe                                            *)
(* lives on the row y = 0; every other tile is at max_occupation, hence no *)
(* farm target, so that every move is along the row and every pos is a     *)
(* whole coordinate.                                                       *)
(***************************************************************************)
ProbeRow == {c \in Coords : c[2] = 0}

ProbeFactoryPos == <<2, 1>>

\* what a tile of the row can hold: nothing, or an occupation of player 1
ProbeRowTiles == {[owner_id |-> None, occupation |-> 0],
                  [owner_id |-> Some(PlayerIds[1]), occupation |-> 1],
                  [owner_id |-> Some(PlayerIds[1]), occupation |-> max_occupation]}

ProbeMaps ==
  {[Map_new EXCEPT !.tiles =
      [c \in Coords |->
         IF c \in ProbeRow
           THEN [Tile_new(c) EXCEPT !.owner_id = row[c].owner_id,
                                    !.occupation = row[c].occupation]
         ELSE IF c = ProbeFactoryPos
           THEN [Tile_new(c) EXCEPT !.owner_id = Some(PlayerIds[1]),
                                    !.occupation = max_occupation,
                                    !.building_id = Some(FirstUnitId)]
         ELSE [Tile_new(c) EXCEPT !.owner_id = Some(PlayerIds[2]),
                                  !.occupation = max_occupation]]] :
     row \in [ProbeRow -> ProbeRowTiles]}

ProbeInit ==
  /\ game = [state_handle |-> StateHandler_new(GameState_new),
             map |-> Map_new,
             players |-> <<>>,
             next_id |-> FirstUnitId]
  /\ out = None
  /\ \E pos \in ProbeRow : \E map \in ProbeMaps :
       LET probe == Probe_new(FirstUnitId + 1, {}, pos) IN
       last = [op |-> "new", player |-> PlayerIds[1], res |-> "Ok",
               probe |-> probe, map |-> map,
               before |-> probe, map_before |-> map, state |-> None, dt |-> 0]
  /\ n_ticks = 0
  /\ n_actions = 0
  /\ client = TilesOfSnapshot(Map_get_complete_state(game.map))
  /\ deaths = {}
  /\ born = LiveIds(game)
  /\ lost = {}
  /\ zeroed = {}

\* probe.run(player, ctx)
ProbeFrame ==
  /\ n_actions < ProbeSteps
  /\ \E dt \in DtSet :
     \E r \in Probe_run_paced(last.probe, PlayerIds[1], {}, <<ProbeFactoryPos>>,
                              last.map, dt, ProbePace) :
       last' = [last EXCEPT !.op = "run", !.probe = r.probe, !.map = r.map,
                            !.before = last.probe, !.map_before = last.map,
                            !.state = r.state, !.dt = dt]
  /\ n_actions' = n_actions + 1
  /\ n_ticks' = n_ticks + 1
  /\ UNCHANGED <<game, out, client, deaths, born, lost, zeroed>>

\* probe.set_farm_target(target), as move_probes calls it
ProbeAim ==
  /\ n_actions < ProbeSteps
  /\ \E target \in ProbeRow :
       last' = [last EXCEPT !.op = "set_farm_target",
                            !.probe = set_farm_target(last.probe, target),
                            !.before = last.probe, !.map_before = last.map,
                            !.state = None]
  /\ n_actions' = n_actions + 1
  /\ UNCHANGED <<game, out, n_ticks, client, deaths, born, lost, zeroed>>

ProbeNext ==
  \/ ProbeFrame
  \/ ProbeAim

SpecProbe == ProbeInit /\ [][ProbeNext]_vars


(***************************************************************************)
(* core.rs: a StateHandler of turret states driven by any sequence of      *)
(* get, get_mut, merge and flush.  The handler is in last.h; last.written  *)
(* tells whether get_mut or merge was called since the previous flush (or  *)
(* since creation), last.had is its value when the last flush started.     *)
(***************************************************************************)
HandleBlank == TurretState_new(FirstUnitId + 4)

StateHandler_get(h) == h.state

StateHandler_get_mut(h) == [h EXCEPT !.is_state = TRUE]

\* Fault variant of StateHandler_merge: the flag is left as it is.
StateHandler_merge_unflagged(h, state) ==
  [h EXCEPT !.state = State_merge(@, state)]

StateHandler_merge(h, state) ==
  [state |-> State_merge(h.state, state), is_state |-> TRUE]

\* the handler after flush(metadata), blank = T::new(metadata)
StateHandler_flushed(h, blank) ==
  IF ~h.is_state THEN h ELSE [state |-> blank, is_state |-> FALSE]

HandleInit ==
  /\ game \in Game_new
  /\ out = None
  /\ last = [op |-> "new", player |-> 0, res |-> None,
             h |-> StateHandler_new(HandleBlank), written |-> FALSE, had |-> FALSE]
  /\ n_ticks = 0
  /\ n_actions = 0
  /\ client = TilesOfSnapshot(Map_get_complete_state(game.map))
  /\ deaths = {}
  /\ born = LiveIds(game)
  /\ lost = {}
  /\ zeroed = {}

HandleDone ==
  /\ n_actions' = n_actions + 1
  /\ UNCHANGED <<game, out, n_ticks, client, deaths, born, lost, zeroed>>

HandleGet ==
  /\ n_actions < HandleSteps
  /\ last' = [last EXCEPT !.op = "get", !.res = Some(StateHandler_get(last.h))]
  /\ HandleDone

\* get_mut, and what the caller does with the reference: nothing, or a write
\* of one field
HandleGetMut ==
  /\ n_actions < HandleSteps
  /\ \E h \in {StateHandler_get_mut(last.h)}
            \cup {handle_set(last.h, "shot_id", Some(id)) :
                    id \in {FirstUnitId + 1, FirstUnitId + 3}}
            \cup {handle_set(last.h, "death", Some("Conquered"))} :
       last' = [last EXCEPT !.op = "get_mut", !.res = None, !.h = h, !.written = TRUE]
  /\ HandleDone

HandleMerge ==
  /\ n_actions < HandleSteps
  /\ \E state \in MergeTurrets :
       last' = [last EXCEPT !.op = "merge", !.res = None,
                            !.h = StateHandler_merge(last.h, state), !.written = TRUE]
  /\ HandleDone

HandleFlush ==
  /\ n_actions < HandleSteps
  /\ last' = [last EXCEPT !.op = "flush",
                          !.res = StateHandler_flush(last.h),
                          !.h = StateHandler_flushed(last.h, HandleBlank),
                          !.written = FALSE,
                          !.had = last.written]
  /\ HandleDone

HandleNext ==
  \/ HandleGet
  \/ HandleGetMut
  \/ HandleMerge
  \/ HandleFlush

SpecHandle == HandleInit /\ [][HandleNext]_vars

(***************************************************************************)
(* core.rs: state_vec_insert called again and again on a list of probe     *)
(* states that starts empty.  The list is in last.list; last.prev is the   *)
(* list before the last call, last.state its argument, and last.firsts the *)
(* ids in the order of their first insertion, the sentinel once for each   *)
(* of its insertions.                                                      *)
(***************************************************************************)
InsertStates ==
  [id : {NOT_IDENTIFIABLE, FirstUnitId + 1, FirstUnitId + 3},
   death : OptOf({"Exploded"}), pos : OptOf({<<0, 0>>, <<0, 1>>}),
   target : {None}, policy : {None}, just_created : {FALSE}]

InsertInit ==
  /\ game \in Game_new
  /\ out = None
  /\ last = [op |-> "new", player |-> 0, res |-> "Ok",
             list |-> <<>>, prev |-> <<>>, state |-> ProbeState_new(NOT_IDENTIFIABLE),
             firsts |-> <<>>]
  /\ n_ticks = 0
  /\ n_actions = 0
  /\ client = TilesOfSnapshot(Map_get_complete_state(game.map))
  /\ deaths = {}
  /\ born = LiveIds(game)
  /\ lost = {}
  /\ zeroed = {}

InsertStep ==
  /\ n_actions < InsertSteps
  /\ \E state \in InsertStates :
       last' = [last EXCEPT
                  !.op = "state_vec_insert",
                  !.list = state_vec_insert(@, state),
                  !.prev = last.list,
                  !.state = state,
                  !.firsts = IF state.id # NOT_IDENTIFIABLE
                                /\ \E i \in 1 .. Len(@) : @[i] = state.id
                               THEN @ ELSE Append(@, state.id)]
  /\ n_actions' = n_actions + 1
  /\ UNCHANGED <<game, out, n_ticks, client, deaths, born, lost, zeroed>>

SpecInsert == InsertInit /\ [][InsertStep]_vars

(***************************************************************************)
(* Properties                                                              *)
(***************************************************************************)
PostRun == last.op = "run"

\* the entry of that id in a list of states, as a set (empty when absent)
EntriesOf(states, id) == {states[i] : i \in {j \in 1 .. Len(states) : states[j].id = id}}

NoRepeatedId(states) ==
  \A i, j \in 1 .. Len(states) : i # j => states[i].id # states[j].id

\* C1: after every Game::run, every tile whose occupation is 0 has no owner
\* and no building.
C1_ZeroTileCleared ==
  PostRun => \A c \in Coords :
    game.map.tiles[c].occupation = 0 =>
      game.map.tiles[c].owner_id = None /\ game.map.tiles[c].building_id = None

\* C2: after Game::new, every tick and every action, a tile's building_id
\* names a factory or turret held by the live player that owns the tile.
C2_BuildingOfOwner ==
  \A c \in Coords :
    IsSome(game.map.tiles[c].building_id) =>
      /\ IsSome(game.map.tiles[c].owner_id)
      /\ Unwrap(game.map.tiles[c].owner_id) \in LivePlayers(game)
      /\ LET owner == PlayerOf(game, Unwrap(game.map.tiles[c].owner_id))
             b == Unwrap(game.map.tiles[c].building_id)
         IN \/ \E f \in 1 .. Len(owner.factories) : owner.factories[f].id = b
            \/ \E t \in 1 .. Len(owner.turrets) : owner.turrets[t].id = b

\* C3 as the specification states it: after every Game::run every player of
\* Game.players owns at least one factory.
C3_EveryPlayerOwnsFactory ==
  PostRun => \A i \in 1 .. Len(game.players) : Len(game.players[i].factories) >= 1

\* C3, amended: after every Game::run every player of Game.players owns at
\* least one factory or lost its last factory to a conquest that this run
\* reconciled, and a run removes only players that own no factory.
C3_PlayersOwnFactory ==
  /\ [](PostRun => \A i \in 1 .. Len(game.players) :
          \/ Len(game.players[i].factories) >= 1
          \/ game.players[i].id \in lost)
  /\ [][last'.op = "run" =>
          \A i \in 1 .. Len(game.players) :
            game.players[i].id \notin LivePlayers(game') =>
              Len(game.players[i].factories) = 0]_vars

C3_Witness ==
  /\ PostRun
  /\ \E i \in 1 .. Len(game.players) :
       Len(game.players[i].factories) = 0 /\ game.players[i].id \in lost

\* C4: the tiles of the construction snapshot with every returned diff
\* applied equal the tiles of the snapshot taken after the last run.
C4_DiffsCompose ==
  PostRun => client = TilesOfSnapshot(Map_get_complete_state(game.map))

\* C5: a returned diff holds at most one entry per player id, inside a
\* player's entry at most one entry per factory id, per turret id and per
\* probe id, and at most one entry per tile id.
C5_OneEntryPerId ==
  IsSome(out) =>
    LET d == Unwrap(out) IN
    /\ NoRepeatedId(d.players)
    /\ \A ps \in DiffPlayers(d) :
         /\ NoRepeatedId(ps.factories)
         /\ NoRepeatedId(ps.turrets)
         /\ NoRepeatedId(Flatten([i \in 1 .. Len(ps.factories) |-> ps.factories[i].probes]))
    /\ IsSome(d.map) => NoRepeatedId(Unwrap(d.map).tiles)

\* a factory written by its own run and by the map-reported death in one tick
C5_Witness ==
  /\ PostRun /\ IsSome(out)
  /\ \E ps \in DiffPlayers(Unwrap(out)) :
       /\ IsSome(ps.money)
       /\ \E fs \in DiffFactories(ps) :
            /\ fs.death = Some("Conquered")
            /\ \E bs \in DiffProbes(fs) : IsSome(bs.pos) /\ bs.death = Some("Scrapped")

\* C6: after every Game::run, every player and unit that no longer exists has
\* its death in exactly one returned diff, with one cause, and nothing the
\* game still holds has a death in any returned diff.
C6_DeathOnce ==
  PostRun =>
    /\ \A id \in born \ LiveIds(game) :
         Cardinality({d \in deaths : d.id = id}) = 1
    /\ \A d \in deaths : d.id \notin LiveIds(game)

C6_Witness ==
  /\ PostRun
  /\ \E d1, d2, d3 \in deaths :
       /\ d1.cause = "Exploded"
       /\ d2.cause = "Conquered"
       /\ d3.cause = "Defeated"

\* whether the diff reports, inside the player diff of w, the death of the
\* building b with that cause
ReportedDead(d, w, b, cause) ==
  \E ps \in EntriesOf(d.players, w) :
    \/ \E fs \in EntriesOf(ps.factories, b) : fs.death = Some(cause)
    \/ \E ts \in EntriesOf(ps.turrets, b) : ts.death = Some(cause)

\* the probes that the factory b of w holds in g and that neither have a
\* death pending nor are attacking, while no turret stands
IdleProbes(g, w, b) ==
  IF w \notin LivePlayers(g) \/ TurretIds(g) # {} THEN {}
  ELSE UNION {
    {f.probes[k].id : k \in {j \in 1 .. Len(f.probes) :
        /\ f.probes[j].state_handle.state.death = None
        /\ f.probes[j].policy # "Attack"}} :
    f \in {PlayerOf(g, w).factories[i] :
             i \in {j \in 1 .. Len(PlayerOf(g, w).factories) :
                      PlayerOf(g, w).factories[j].id = b}}}

ProbesScrapped(d, w, b, probes) ==
  \A ps \in EntriesOf(d.players, w) : \A fs \in EntriesOf(ps.factories, b) :
    \A k \in probes : \E bs \in EntriesOf(fs.probes, k) : bs.death = Some("Scrapped")

\* an explosion that brings a tile with a building to 0 clears the owner and
\* the building of the tile and records the building as dead
ClearedAtOnce ==
  [][last'.op = "explode_probes" =>
       \A c \in Coords :
         (/\ IsSome(game.map.tiles[c].building_id)
          /\ IsSome(game.map.tiles[c].owner_id)
          /\ game.map.tiles[c].occupation > 0
          /\ game'.map.tiles[c].occupation = 0) =>
           /\ game'.map.tiles[c].owner_id = None
           /\ game'.map.tiles[c].building_id = None
           /\ <<Unwrap(game.map.tiles[c].owner_id), Unwrap(game.map.tiles[c].building_id)>>
                \in DeadBuildings(game'.map.state_handle.state)]_vars

Defeats(d, p) == \E ps \in EntriesOf(d.players, p) : ps.death = Some("Defeated")

\* C8 as the specification states it: a player whose last factory the last
\* run conquered is in the game after that run and, unless it resigned, the
\* next run reports it Defeated and removes it.
C8_DefeatedNextTick ==
  /\ [](PostRun => lost \subseteq LivePlayers(game))
  /\ [][last'.op = "run" =>
          \A p \in lost \cap LivePlayers(game) :
            /\ IsSome(out') /\ Defeats(Unwrap(out'), p)
            /\ p \notin LivePlayers(game')]_vars

\* C8, amended: a player whose last factory the last run conquered is in the
\* game after that run and, unless it resigned or built a factory in between,
\* the next run reports it Defeated and removes it.
C8_DefeatedUnlessRebuilt ==
  /\ [](PostRun => lost \subseteq LivePlayers(game))
  /\ [][last'.op = "run" =>
          \A p \in lost \cap LivePlayers(game) :
            Len(PlayerOf(game, p).factories) = 0 =>
              /\ IsSome(out') /\ Defeats(Unwrap(out'), p)
              /\ p \notin LivePlayers(game')]_vars

\* a player reported Defeated by the run after the one that conquered its
\* last factory, an action in between
C8_Witness ==
  /\ PostRun /\ IsSome(out) /\ n_ticks = 3 /\ n_actions = 2
  /\ \E p \in PlayerInputs :
       /\ Defeats(Unwrap(out), p)
       /\ \E d \in deaths : d.cause = "Conquered" /\ d.tick = 2
       /\ p \notin LivePlayers(game)

\* C9: the diff a Game::run returns has game_ended = true exactly when one
\* player is in the game at the end of that run.
C9_EndedIffOneLeft ==
  PostRun => ((IsSome(out) /\ Unwrap(out).game_ended) <=> Len(game.players) = 1)

C9_Witness ==
  /\ PostRun /\ IsSome(out) /\ Unwrap(out).game_ended
  /\ Len(game.players) = 1

\* the players whose resignation waits in the game's diff for the next run
PendingResigned(g) ==
  {ps \in DiffPlayers(g.state_handle.state) : ps.death = Some("Resigned")}

\* the diff reports the player diff ps (a death with all its units Scrapped)
ReportsResigned(d, ps) ==
  \E e \in EntriesOf(d.players, ps.id) :
    /\ e.death = Some("Resigned")
    /\ \A fs \in DiffFactories(ps) : \E x \in EntriesOf(e.factories, fs.id) :
         /\ x.death = Some("Scrapped")
         /\ \A bs \in DiffProbes(fs) : \E y \in EntriesOf(x.probes, bs.id) :
              y.death = Some("Scrapped")
    /\ \A ts \in DiffTurrets(ps) : \E x \in EntriesOf(e.turrets, ts.id) :
         x.death = Some("Scrapped")

\* C10: with two players, after resign_game(p) returned Ok p is no player of
\* the game, and the next Game::run returns a diff with p's player diff
\* (death Resigned, every unit Scrapped) and game_ended = true.
C10_ResignEndsGame ==
  /\ []((last.op = "resign_game" /\ last.res = "Ok") => last.player \notin LivePlayers(game))
  /\ [][last'.op = "run" =>
          \A ps \in PendingResigned(game) :
            /\ IsSome(out')
            /\ ReportsResigned(Unwrap(out'), ps)
            /\ Unwrap(out').game_ended]_vars

\* C11: an action that returns a rejection leaves the whole game (players,
\* money, techs, units, tiles, pending diffs) as it was before the call.
C11_RejectionKeepsState ==
  [][last'.res # "Ok" => game' = game]_vars

\* a build rejected for its price after a tick, and nothing changed
C11_Witness ==
  /\ last.op = "create_factory" /\ last.res = "Not enough money"
  /\ n_ticks >= 1
  /\ \E i \in 1 .. Len(game.players) :
       game.players[i].id = last.player /\ game.players[i].money < factory_price

\* the three categories of technologies
TechCategories ==
  {{"PROBE_EXPLOSION_INTENSITY", "PROBE_CLAIM_INTENSITY", "PROBE_HP"},
   {"FACTORY_BUILD_DELAY", "FACTORY_PROBE_PRICE", "FACTORY_MAX_PROBE"},
   {"TURRET_SCOPE", "TURRET_FIRE_DELAY", "TURRET_MAINTENANCE_COSTS"}}

\* C12: a player never holds two technologies of one category; acquire_tech
\* returns Ok only for a technology that is not held, whose category is free
\* and whose price the money covers, and then the money drops by the price
\* and the technology joins the set and the player's pending diff; a
\* rejected call changes neither money, set nor diff.
C12_OneTechPerCategory ==
  /\ [](\A i \in 1 .. Len(game.players) : \A cat \in TechCategories :
          Cardinality(game.players[i].techs \cap cat) <= 1)
  /\ [][(last'.op = "acquire_tech" /\ last'.player \in LivePlayers(game)) =>
          LET before == PlayerOf(game, last'.player)
              after == PlayerOf(game', last'.player)
          IN IF last'.res = "Ok"
               THEN \E t \in Techs \ before.techs :
                      /\ \A cat \in TechCategories : t \in cat => before.techs \cap cat = {}
                      /\ before.money >= get_tech_price(t)
                      /\ after.money = before.money - get_tech_price(t)
                      /\ after.techs = before.techs \cup {t}
                      /\ after.state_handle.is_state
                      /\ after.state_handle.state.techs =
                           Append(before.state_handle.state.techs, t)
                      /\ after.state_handle.state.money = Some(after.money)
               ELSE /\ after.money = before.money
                    /\ after.techs = before.techs
                    /\ after.state_handle = before.state_handle]_vars

\* a player holding technologies of two categories is refused a second one
\* of a category it holds
C12_Witness ==
  /\ last.op = "acquire_tech"
  /\ last.res = "Can't acquire multiple technologies of same category"
  /\ \E i \in 1 .. Len(game.players) :
       /\ game.players[i].id = last.player
       /\ Cardinality(game.players[i].techs) = 2

C14_OccupationInRange ==
  /\ \A c \in Coords :
       /\ game.map.tiles[c].occupation >= 0
       /\ game.map.tiles[c].occupation <= max_occupation
  /\ IsSome(out) /\ IsSome(Unwrap(out).map) =>
       \A i \in 1 .. Len(Unwrap(Unwrap(out).map).tiles) :
         LET s == Unwrap(Unwrap(out).map).tiles[i] IN
         IsSome(s.occupation) =>
           Unwrap(s.occupation) >= 0 /\ Unwrap(s.occupation) <= max_occupation

\* A tick in which a probe exploded and an opponent's tile dropped to
\* occupation 0 and lost its owner.
C14_Witness ==
  /\ PostRun
  /\ \E d \in deaths : d.cause = "Exploded" /\ d.tick = n_ticks
  /\ IsSome(out) /\ IsSome(Unwrap(out).map)
  /\ \E i \in 1 .. Len(Unwrap(Unwrap(out).map).tiles) :
       LET s == Unwrap(Unwrap(out).map).tiles[i] IN
       /\ s.occupation = Some(0)
       /\ s.owner_id = None
       /\ \E c \in Coords :
            /\ TileId(c) = s.id
            /\ game.map.tiles[c].occupation = 0
            /\ game.map.tiles[c].owner_id = None

(***************************************************************************)
(* C15: claim_tile agrees with its reference on every input.  Out of the   *)
(* map it returns false and changes nothing.  In the map it returns true,  *)
(* leaves every other tile alone, raises an unowned or own tile by the     *)
(* intensity up to max_occupation (taking an unowned tile), lowers an      *)
(* opponent's tile by the intensity down to 0, at 0 clears owner and       *)
(* building and records the building dead for its former owner, and the    *)
(* pending diff holds one entry for the tile, with the tile's new          *)
(* occupation and owner.                                                   *)
(***************************************************************************)
ClaimedOccupation(tile, player_id, intensity) ==
  IF tile.owner_id = None \/ tile.owner_id = Some(player_id)
    THEN IF tile.occupation + intensity <= max_occupation
           THEN tile.occupation + intensity ELSE max_occupation
    ELSE IF tile.occupation - intensity >= 0
           THEN tile.occupation - intensity ELSE 0

ClaimedTile(tile, player_id, intensity) ==
  LET occ == ClaimedOccupation(tile, player_id, intensity) IN
  IF tile.owner_id = None \/ tile.owner_id = Some(player_id)
    THEN [tile EXCEPT !.occupation = occ, !.owner_id = Some(player_id)]
  ELSE IF occ = 0
    THEN [tile EXCEPT !.occupation = 0, !.owner_id = None, !.building_id = None]
  ELSE [tile EXCEPT !.occupation = occ]

ClaimedDead(dead, tile, player_id, intensity) ==
  IF /\ IsSome(tile.owner_id) /\ tile.owner_id # Some(player_id)
     /\ ClaimedOccupation(tile, player_id, intensity) = 0
     /\ IsSome(tile.building_id)
    THEN LET o == Unwrap(tile.owner_id) IN
         [x \in DOMAIN dead \cup {o} |->
            IF x = o
              THEN (IF o \in DOMAIN dead THEN dead[o] ELSE <<>>)
                     \o <<Unwrap(tile.building_id)>>
              ELSE dead[x]]
    ELSE dead

ClaimTilesKept(before, after, c, player_id, intensity) ==
  /\ after.tiles = [before.tiles EXCEPT ![c] = ClaimedTile(@, player_id, intensity)]
  /\ after.delayer_deprecate = before.delayer_deprecate
  /\ after.state_handle.is_state
  /\ after.state_handle.state.dead_building =
       ClaimedDead(before.state_handle.state.dead_building, before.tiles[c],
                   player_id, intensity)
  /\ LET old == before.state_handle.state.tiles
         new == after.state_handle.state.tiles
         id == before.tiles[c].id
     IN /\ Cardinality({i \in 1 .. Len(new) : new[i].id = id}) = 1
        /\ {new[i] : i \in {j \in 1 .. Len(new) : new[j].id # id}}
             = {old[i] : i \in {j \in 1 .. Len(old) : old[j].id # id}}

ClaimDiffCurrent(after, c) ==
  \A i \in 1 .. Len(after.state_handle.state.tiles) :
    LET s == after.state_handle.state.tiles[i] IN
    s.id = after.tiles[c].id =>
      /\ s.occupation = Some(after.tiles[c].occupation)
      /\ s.owner_id = after.tiles[c].owner_id

C15_ClaimTileMatchesReference ==
  [][last'.op = "claim_tile" =>
       IF last'.coord \in Coords
         THEN /\ last'.res = "true"
              /\ ClaimTilesKept(game.map, game'.map, last'.coord, last'.player,
                                last'.intensity)
              /\ ClaimDiffCurrent(game'.map, last'.coord)
         ELSE /\ last'.res = "false"
              /\ game'.map = game.map]_vars

\* the same without the owner of the pending diff entry
C15_ClaimTileButDiffOwner ==
  [][last'.op = "claim_tile" =>
       IF last'.coord \in Coords
         THEN /\ last'.res = "true"
              /\ ClaimTilesKept(game.map, game'.map, last'.coord, last'.player,
                                last'.intensity)
              /\ \A i \in 1 .. Len(game'.map.state_handle.state.tiles) :
                   LET s == game'.map.state_handle.state.tiles[i] IN
                   s.id = game'.map.tiles[last'.coord].id =>
                     s.occupation = Some(game'.map.tiles[last'.coord].occupation)
         ELSE /\ last'.res = "false"
              /\ game'.map = game.map]_vars

(***************************************************************************)
(* C16: a fresh factory with expansion_size = ExpandSize, ticked with a dt *)
(* that divides the 0.5 s of its expand gate, has after k times 0.5 s, for *)
(* k up to ExpandSize, expand_step = k and policy Expand, and after the    *)
(* first 0.5 s the tiles at Manhattan distance 1 are its owner's, at the   *)
(* occupation one claim of intensity 2 gives; after (ExpandSize + 1) times *)
(* 0.5 s, not before, expand_step is 0 and the policy is Produce.          *)
(***************************************************************************)
Manhattan(a, b) ==
  (IF a[1] >= b[1] THEN a[1] - b[1] ELSE b[1] - a[1])
    + (IF a[2] >= b[2] THEN a[2] - b[2] ELSE b[2] - a[2])

ExpandClaimedAround ==
  \A c \in Coords :
    Manhattan(c, ExpandFactory.pos) = 1 =>
      /\ game.map.tiles[c].owner_id = Some(last.player)
      /\ game.map.tiles[c].occupation = expand_intensity

CreatedTargets(map, player_id, pos) ==
  {Unwrap(c.state.target) :
     c \in create_probe(create_created_state(pos), FirstUnitId, player_id, {}, <<>>, map)}

ValidFarmTargets(map, player_id) ==
  {c \in Coords : is_tile_valid_farm_target(map, c, player_id)}

ProbeTargetsValid ==
  \A i \in 1 .. Len(game.players) :
    \A j \in 1 .. Len(game.players[i].factories) :
      LET pid == game.players[i].id
          pos == game.players[i].factories[j].pos
          valid == ValidFarmTargets(game.map, pid)
      IN \A t \in CreatedTargets(game.map, pid, pos) :
           t \in valid \/ (t = pos /\ valid = {})

ProduceFires(factory, techs) ==
  /\ factory.policy = "Produce"
  /\ Len(factory.probes) # get_max_probe(techs)
  /\ \A dt \in DtSet : Delayer_wait(factory.delayer_produce, dt).fired

ProbeIdsOf(factory) == {factory.probes[k].id : k \in 1 .. Len(factory.probes)}

\* the entries the diff holds for the probes of that factory
ProbeEntries(o, player_id, factory_id) ==
  IF o = None THEN {}
  ELSE UNION {{fs.probes[k] : k \in 1 .. Len(fs.probes)} :
                fs \in UNION {{f \in DiffFactories(ps) : f.id = factory_id} :
                                ps \in {x \in DiffPlayers(Unwrap(o)) : x.id = player_id}}}

\* the income the diff reports for the player, 0 when it reports none
IncomeSettled(o, player_id) ==
  IF o = None THEN 0
  ELSE LET inc == {Unwrap(ps.income) :
                     ps \in {x \in DiffPlayers(Unwrap(o)) :
                               x.id = player_id /\ IsSome(x.income)}}
       IN IF inc = {} THEN 0 ELSE CHOOSE x \in inc : TRUE

ProbePurchase(p, q) ==
  LET price == get_probe_price(p.techs)
      new(j) == ProbeIdsOf(q.factories[j]) \ ProbeIdsOf(p.factories[j])
      bought_before(j) == Cardinality(UNION {new(k) : k \in 1 .. j - 1})
      bought == Cardinality(UNION {new(k) : k \in 1 .. Len(p.factories)})
      settled == p.money - price * bought + IncomeSettled(out', p.id)
  IN /\ Len(q.factories) = Len(p.factories)
     /\ \A j \in 1 .. Len(p.factories) :
          LET f == p.factories[j]
              entries == {e \in ProbeEntries(out', p.id, f.id) : e.id \notin ProbeIdsOf(f)}
          IN IF ProduceFires(f, p.techs) /\ p.money - price * bought_before(j) >= price
               THEN /\ Cardinality(new(j)) = 1
                    /\ Len(q.factories[j].probes) = Len(f.probes) + 1
                    /\ {e.id : e \in entries} = new(j)
                    /\ \A e \in entries :
                         /\ e.id # NOT_IDENTIFIABLE
                         /\ e.id \notin born
                         /\ IsSome(e.target)
                         /\ \E k \in 1 .. Len(q.factories[j].probes) :
                              /\ q.factories[j].probes[k].id = e.id
                              /\ e.pos = Some(f.pos)
               ELSE /\ new(j) = {}
                    /\ Len(q.factories[j].probes) = Len(f.probes)
                    /\ entries = {}
     /\ q.money = IF settled > 0 THEN settled ELSE 0
     /\ bought = 0 /\ IncomeSettled(out', p.id) = 0 => q.money = p.money

C17_ProbePurchase ==
  /\ []ProbeTargetsValid
  /\ [][last'.op = "run" =>
          /\ Len(game'.players) = Len(game.players)
          /\ \A i \in 1 .. Len(game.players) :
               ProbePurchase(game.players[i], game'.players[i])]_vars

\* A tick in which a produce gate fired (the expansion is over and the gate
\* has just been reset) for a player without the money of a probe: the diff
\* holds the factory's entry, without an entry of a new probe.
C17_Witness ==
  /\ PostRun
  /\ n_ticks >= factory_expansion_size + 1 + factory_build_probe_delay
  /\ IsSome(out)
  /\ \E i \in 1 .. Len(game.players) :
       LET p == game.players[i] IN
       /\ p.money < get_probe_price(p.techs)
       /\ \E j \in 1 .. Len(p.factories) :
            /\ p.factories[j].policy = "Produce"
            /\ p.factories[j].delayer_produce.counter = 0
            /\ Len(p.factories[j].probes) < get_max_probe(p.techs)
            /\ \E ps \in DiffPlayers(Unwrap(out)) :
                 /\ ps.id = p.id
                 /\ \E fs \in DiffFactories(ps) :
                      /\ fs.id = p.factories[j].id
                      /\ fs.death = None
                      /\ \A k \in 1 .. Len(fs.probes) :
                           fs.probes[k].id \in ProbeIdsOf(p.factories[j])

(***************************************************************************)
(* C18: probes_attack called for a player while the map holds no tile of   *)
(* an opponent, so that the search of an attack target finds none for any  *)
(* probe, returns Ok and leaves the game as it was: policy, target,        *)
(* movement and pending diff of every probe.                               *)
(***************************************************************************)
NoAttackTarget(g, player_id) ==
  \A c \in Coords : get_probe_attack_target(g.map, player_id, c) = {None}

C18_NoTargetNoEffect ==
  [][/\ last'.op = "probes_attack"
     /\ last'.player \in LivePlayers(game)
     /\ NoAttackTarget(game, last'.player)
     => last'.res = "Ok" /\ game' = game]_vars

(***************************************************************************)
(* C19: a tick that follows a tick (or the construction) with no action in *)
(* between, that leaves the complete state as it was (tiles, money, techs, *)
(* units and their fields), kills nothing and does not bring the game to   *)
(* its last player, returns None; and a GameState that a tick returns has  *)
(* its map, a player entry or game_ended set.                              *)
(***************************************************************************)
NothingChanged ==
  /\ Game_get_complete_state(game') = Game_get_complete_state(game)
  /\ LiveIds(game') = LiveIds(game)

NewlyEnded == Len(game.players) # 1 /\ Len(game'.players) = 1

C19_DiffOnlyOnChange ==
  [][last'.op = "run" =>
       /\ (last.op \in {"new", "run"} /\ NothingChanged /\ ~NewlyEnded) => out' = None
       /\ IsSome(out') =>
            \/ IsSome(Unwrap(out').map)
            \/ Unwrap(out').players # <<>>
            \/ Unwrap(out').game_ended]_vars

\* the same for the ticks of a game that has more than one player left
C19_DiffOnlyOnChangeBeforeEnd ==
  [][last'.op = "run" /\ Len(game'.players) # 1 =>
       /\ (last.op \in {"new", "run"} /\ NothingChanged) => out' = None
       /\ IsSome(out') =>
            \/ IsSome(Unwrap(out').map)
            \/ Unwrap(out').players # <<>>]_vars

(***************************************************************************)
(* C20: in every state, the snapshot of get_complete_state merged into a   *)
(* blank GameState gives the snapshot again, and so does each player,      *)
(* factory, turret, probe and tile entry of the snapshot merged into a     *)
(* blank state of its kind and id.                                         *)
(***************************************************************************)
SeqElems(s) == {s[i] : i \in 1 .. Len(s)}

TileState_blank(id) == [id |-> id, coord |-> None, occupation |-> None, owner_id |-> None]

MergeKeepsGame(s) == GameState_merge(GameState_new, s) = s

MergeKeepsTiles(s) ==
  \A ts \in SeqElems(Unwrap(s.map).tiles) :
    TileState_merge(TileState_blank(ts.id), ts) = ts

MergeKeepsPlayers(s) ==
  \A ps \in SeqElems(s.players) : PlayerState_merge(PlayerState_new(ps.id), ps) = ps

MergeKeepsTurrets(s) ==
  \A ps \in SeqElems(s.players) : \A ts \in SeqElems(ps.turrets) :
    TurretState_merge(TurretState_new(ts.id), ts) = ts

MergeKeepsFactories(s) ==
  \A ps \in SeqElems(s.players) : \A fs \in SeqElems(ps.factories) :
    FactoryState_merge(FactoryState_new(fs.id), fs) = fs

MergeKeepsProbes(s) ==
  \A ps \in SeqElems(s.players) : \A fs \in SeqElems(ps.factories) :
    \A bs \in SeqElems(fs.probes) :
      ProbeState_merge(ProbeState_new(bs.id), bs) = bs

C20_MergeIntoBlank ==
  \A s \in Game_get_complete_state(game) :
    /\ MergeKeepsGame(s)
    /\ MergeKeepsTiles(s)
    /\ MergeKeepsPlayers(s)
    /\ MergeKeepsTurrets(s)
    /\ MergeKeepsFactories(s)
    /\ MergeKeepsProbes(s)

\* the kinds for which the merge does give the snapshot again
C20_MergeIntoBlankButTechsAndPolicy ==
  \A s \in Game_get_complete_state(game) :
    /\ MergeKeepsGame(s)
    /\ MergeKeepsTiles(s)
    /\ MergeKeepsTurrets(s)
    /\ MergeKeepsFactories(s)
    /\ \A ps \in SeqElems(s.players) :
         PlayerState_merge(PlayerState_new(ps.id), ps) = [ps EXCEPT !.techs = <<>>]
    /\ \A ps \in SeqElems(s.players) : \A fs \in SeqElems(ps.factories) :
         \A bs \in SeqElems(fs.probes) :
           ProbeState_merge(ProbeState_new(bs.id), bs) = [bs EXCEPT !.policy = None]

(***************************************************************************)
(* C21: in every state, the tick that Game::run would do next, with the    *)
(* pseudorandom draws of the players' runs and of the map's run fixed,     *)
(* gives one game and one diff, whatever the order in which the owners of  *)
(* the dead buildings are handled.                                         *)
(***************************************************************************)
RunsDeterministic(g, dt) ==
  \A r \in Game_run_players([game |-> g, dead |-> {}], 1, dt) :
    LET g1 == [r.game EXCEPT !.players = RemoveIdxs(@, r.dead)] IN
    \A m \in Map_run(g1.map, dt) :
      \A o1, o2 \in dead_building_orders(m) :
        Game_run_flush(g1, m, o1) = Game_run_flush(g1, m, o2)

C21_SameDrawsSameDiff ==
  n_ticks < TrioTicks => \A dt \in DtSet : RunsDeterministic(game, dt)

(***************************************************************************)
(* C22: in every state, a probe whose death is recorded in its pending     *)
(* state (Shot by a turret, or Exploded by explode_probes) and that is     *)
(* still in its factory's list does nothing when Probe::run is applied to  *)
(* it on the current map: the map and the probe's position stay as they    *)
(* are.                                                                    *)
(***************************************************************************)
DeathRecorded(probe) == IsSome(probe.state_handle.state.death)

ProbeInert(probe, player, map, dt) ==
  \A r \in Probe_step(probe, player.id, player.techs,
                      positions_of(player.factories), map, dt) :
    /\ r.map = map
    /\ r.probe.pos = probe.pos

C22_DeadProbeActsNoMore ==
  \A i \in 1 .. Len(game.players) :
    \A f \in 1 .. Len(game.players[i].factories) :
      \A k \in 1 .. Len(game.players[i].factories[f].probes) :
        LET probe == game.players[i].factories[f].probes[k] IN
        DeathRecorded(probe) =>
          \A dt \in DtSet : ProbeInert(probe, game.players[i], game.map, dt)

(***************************************************************************)
(* C23: at the end of every tick, a player that owns TURRET_FIRE_DELAY     *)
(* (resp. FACTORY_BUILD_DELAY) has the tech-adjusted delay, base minus     *)
(* decrease, in the fire gate of every turret (resp. the produce gate of   *)
(* every factory) it owns, whenever the unit was built.                    *)
(***************************************************************************)
TechDelaysApplied(player) ==
  /\ "TURRET_FIRE_DELAY" \in player.techs =>
       \A i \in 1 .. Len(player.turrets) :
         player.turrets[i].delayer_fire.delay =
           turret_fire_delay - tech_turret_fire_delay_decrease
  /\ "FACTORY_BUILD_DELAY" \in player.techs =>
       \A i \in 1 .. Len(player.factories) :
         player.factories[i].delayer_produce.delay =
           factory_build_probe_delay - tech_factory_build_delay_decrease

C23_TechDelayOnEveryBuilding ==
  PostRun => \A i \in 1 .. Len(game.players) : TechDelaysApplied(game.players[i])

(***************************************************************************)
(* C24: the result of every merge of a partial B into a partial A of one   *)
(* kind has, for every scalar field, B's value when B sets it and A's      *)
(* value otherwise (probe policy, turret shot_id and game_ended included), *)
(* A's techs followed by B's, and the nested lists merged by id under the  *)
(* same rule.                                                              *)
(***************************************************************************)
Later(a, b, field) == IF IsSome(b[field]) THEN b[field] ELSE a[field]

RECURSIVE FieldwiseInsertAll(_, _)
RECURSIVE FieldwiseMerge(_, _)
FieldwiseInsert(states, state) ==
  LET same == {i \in 1 .. Len(states) : Is(states[i], state)} IN
  IF same = {} THEN Append(states, state)
  ELSE [states EXCEPT ![Min(same)] = FieldwiseMerge(@, state)]

FieldwiseInsertAll(states, news) ==
  IF Len(news) = 0 THEN states
  ELSE FieldwiseInsertAll(FieldwiseInsert(states, Head(news)), Tail(news))

FieldwiseMerge(a, b) ==
  CASE "occupation" \in DOMAIN a ->
         [id |-> a.id, coord |-> Later(a, b, "coord"),
          occupation |-> Later(a, b, "occupation"), owner_id |-> Later(a, b, "owner_id")]
    [] "just_created" \in DOMAIN a ->
         [a EXCEPT !.death = Later(a, b, "death"), !.pos = Later(a, b, "pos"),
                   !.target = Later(a, b, "target"), !.policy = Later(a, b, "policy")]
    [] "probes" \in DOMAIN a ->
         [a EXCEPT !.death = Later(a, b, "death"), !.coord = Later(a, b, "coord"),
                   !.probes = FieldwiseInsertAll(@, b.probes)]
    [] "shot_id" \in DOMAIN a ->
         [a EXCEPT !.death = Later(a, b, "death"), !.coord = Later(a, b, "coord"),
                   !.shot_id = Later(a, b, "shot_id")]
    [] "factories" \in DOMAIN a ->
         [a EXCEPT !.death = Later(a, b, "death"), !.money = Later(a, b, "money"),
                   !.income = Later(a, b, "income"), !.techs = @ \o b.techs,
                   !.factories = FieldwiseInsertAll(@, b.factories),
                   !.turrets = FieldwiseInsertAll(@, b.turrets)]
    [] "game_ended" \in DOMAIN a ->
         [map |-> IF IsSome(a.map) /\ IsSome(b.map)
                    THEN Some([tiles |-> FieldwiseInsertAll(Unwrap(a.map).tiles,
                                                            Unwrap(b.map).tiles),
                               dead_building |-> <<>>])
                    ELSE Later(a, b, "map"),
          players |-> FieldwiseInsertAll(a.players, b.players),
          game_ended |-> a.game_ended \/ b.game_ended]

C24_MergeFieldwise ==
  last.op = "merge" => last.res = FieldwiseMerge(last.a, last.b)

(***************************************************************************)
(* C25: a flush returns Some exactly when get_mut or merge was called      *)
(* since the previous flush or the creation, whatever the number of gets;  *)
(* after a flush the handler holds the blank state with the flag cleared,  *)
(* so a flush that follows at once returns None.                           *)
(***************************************************************************)
C25_FlushExactlyAfterWrite ==
  last.op = "flush" =>
    /\ IsSome(last.res) <=> last.had
    /\ last.h = StateHandler_new(HandleBlank)
    /\ StateHandler_flush(last.h) = None

C25_Witness ==
  /\ last.op = "flush"
  /\ last.had
  /\ IsSome(last.res)
  /\ Unwrap(last.res) # HandleBlank

(***************************************************************************)
(* C26: after any sequence of state_vec_insert calls on an empty list, the *)
(* list has at most one entry for an id that is not the sentinel, its ids  *)
(* are in the order of their first insertion with one entry for every      *)
(* insertion of the sentinel, and the last call either merged its argument *)
(* into the entry of the same id, the length and the other entries         *)
(* unchanged, or appended it.                                              *)
(***************************************************************************)
InsertIdsOnce ==
  \A i, j \in 1 .. Len(last.list) :
    i # j /\ last.list[i].id = last.list[j].id => last.list[i].id = NOT_IDENTIFIABLE

InsertKeepsOrder ==
  /\ Len(last.list) = Len(last.firsts)
  /\ \A i \in 1 .. Len(last.list) : last.list[i].id = last.firsts[i]

InsertMergedOrAppended ==
  LET same == {i \in 1 .. Len(last.prev) :
                 last.state.id # NOT_IDENTIFIABLE /\ last.prev[i].id = last.state.id}
  IN IF same = {} THEN last.list = Append(last.prev, last.state)
     ELSE /\ Len(last.list) = Len(last.prev)
          /\ \A i \in 1 .. Len(last.prev) :
               last.list[i] = IF i \in same THEN ProbeState_merge(last.prev[i], last.state)
                              ELSE last.prev[i]

C26_InsertKeepsOneEntryPerId ==
  last.op = "state_vec_insert" =>
    /\ InsertIdsOnce
    /\ InsertKeepsOrder
    /\ InsertMergedOrAppended

C26_Witness ==
  /\ last.op = "state_vec_insert"
  /\ Len(last.list) = Len(last.prev)
  /\ last.list # last.prev
  /\ \E i, j \in 1 .. Len(last.list) :
       i # j /\ last.list[i].id = NOT_IDENTIFIABLE /\ last.list[j].id = NOT_IDENTIFIABLE

(***************************************************************************)
(* C27: in every state, Turret::run applied to a turret and the other      *)
(* players does this.  A turret in Ready has an empty fire gate; with no   *)
(* probe in range it does nothing, otherwise it damages one probe, the     *)
(* first in range in opponent, factory and probe order, a probe of another *)
(* player, reports it as shot_id and enters Wait.  A turret in Wait        *)
(* damages no probe and reports no shot, run after run, until the time it  *)
(* has waited since its shot is at least its fire delay, and only then is  *)
(* Ready again.                                                            *)
(***************************************************************************)
InRange(turret, techs, opponents) ==
  {t \in UNION {{<<o, f, k>> : k \in 1 .. Len(opponents[o].factories[f].probes)} :
                  <<o, f>> \in UNION {{<<o, f>> : f \in 1 .. Len(opponents[o].factories)} :
                                        o \in 1 .. Len(opponents)}} :
     LET pos == opponents[t[1]].factories[t[2]].probes[t[3]].pos
         scope == IF "TURRET_SCOPE" \in techs
                    THEN turret_scope + tech_turret_scope_increase ELSE turret_scope
     IN (turret.pos[1] - pos[1]) * (turret.pos[1] - pos[1])
          + (turret.pos[2] - pos[2]) * (turret.pos[2] - pos[2]) <= scope * scope}

FirstInRange(range) ==
  LET o == Min({t[1] : t \in range})
      f == Min({t[2] : t \in {u \in range : u[1] = o}})
      k == Min({t[3] : t \in {u \in range : u[1] = o /\ u[2] = f}})
  IN <<o, f, k>>

ReadyFiresOnce(turret, player_id, techs, opponents, dt) ==
  LET r == Turret_run(turret, techs, opponents, dt)
      range == InRange(turret, techs, opponents)
  IN /\ turret.delayer_fire.counter = 0
     /\ IF range = {}
          THEN r.opponents = opponents /\ r.state = None /\ r.turret.policy = "Ready"
          ELSE LET t == FirstInRange(range)
                   probe == opponents[t[1]].factories[t[2]].probes[t[3]]
               IN /\ opponents[t[1]].id # player_id
                  /\ IsSome(r.state) /\ Unwrap(r.state).shot_id = Some(probe.id)
                  /\ r.turret.policy = "Wait"
                  /\ r.turret.delayer_fire.counter = 0
                  /\ r.opponents[t[1]].factories[t[2]].probes[t[3]].hp =
                       (IF probe.hp > turret_damage THEN probe.hp - turret_damage ELSE 0)
                  /\ \A u \in InRange(turret, techs, opponents) \ {t} :
                       r.opponents[u[1]].factories[u[2]].probes[u[3]] =
                         opponents[u[1]].factories[u[2]].probes[u[3]]

RECURSIVE WaitsOutDelay(_, _, _, _)
WaitsOutDelay(turret, techs, opponents, dt) ==
  LET r == Turret_run(turret, techs, opponents, dt) IN
  /\ r.opponents = opponents
  /\ r.state = None
  /\ IF turret.delayer_fire.counter + dt >= turret.delayer_fire.delay
       THEN r.turret.policy = "Ready"
       ELSE /\ r.turret.policy = "Wait"
            /\ r.turret.delayer_fire.counter = turret.delayer_fire.counter + dt
            /\ WaitsOutDelay(r.turret, techs, opponents, dt)

C27_TurretFiresOncePerDelay ==
  \A i \in 1 .. Len(game.players) :
    \A j \in 1 .. Len(game.players[i].turrets) :
      \A dt \in DtSet :
        LET turret == game.players[i].turrets[j]
            opponents == RemoveAt(game.players, i)
        IN IF turret.policy = "Ready"
             THEN ReadyFiresOnce(turret, game.players[i].id, game.players[i].techs,
                                 opponents, dt)
             ELSE WaitsOutDelay(turret, game.players[i].techs, opponents, dt)

C27_Witness ==
  /\ PostRun
  /\ \E i \in 1 .. Len(game.players) :
       \E j \in 1 .. Len(game.players[i].turrets) :
         LET opponents == RemoveAt(game.players, i) IN
         /\ game.players[i].turrets[j].policy = "Wait"
         /\ \E t \in InRange(game.players[i].turrets[j], game.players[i].techs, opponents) :
              /\ opponents[t[1]].factories[t[2]].probes[t[3]].hp = 0
              /\ opponents[t[1]].factories[t[2]].probes[t[3]].state_handle.state.death
                   = Some("Shot")

(***************************************************************************)
(* C28: in every tick, a probe that a turret reports as shot_id and that   *)
(* was in the game before the tick had hp left before the tick, and the    *)
(* shots reported on it but the last would not have used up that hp: no    *)
(* turret reports a shot on a probe that was already dead when it fired.   *)
(***************************************************************************)
TurretShots(o) ==
  IF o = None THEN {}
  ELSE UNION {{<<Unwrap(o).players[p].turrets[t].id,
                 Unwrap(Unwrap(o).players[p].turrets[t].shot_id)>> :
                 t \in {t \in 1 .. Len(Unwrap(o).players[p].turrets) :
                          IsSome(Unwrap(o).players[p].turrets[t].shot_id)}} :
              p \in 1 .. Len(Unwrap(o).players)}

ProbesOfGame(g) ==
  UNION {UNION {{g.players[i].factories[f].probes[k] :
                   k \in 1 .. Len(g.players[i].factories[f].probes)} :
                f \in 1 .. Len(g.players[i].factories)} :
         i \in 1 .. Len(g.players)}

ShotsHitLiveProbes(g, o) ==
  \A probe \in ProbesOfGame(g) :
    LET n == Cardinality({s \in TurretShots(o) : s[2] = probe.id}) IN
    n > 0 => probe.hp > (n - 1) * turret_damage

C28_ShotsHitLiveProbes ==
  [][last'.op = "run" => ShotsHitLiveProbes(game, out')]_vars

(***************************************************************************)
(* C29: a tick that starts with two players or more and leaves the game    *)
(* without a player returns a diff with game_ended = true, or the tick     *)
(* after it does.                                                          *)
(***************************************************************************)
SignalsEnd(o) == IsSome(o) /\ Unwrap(o).game_ended

C29_EmptyGameSignalsEnd ==
  [][last'.op = "run" /\ Len(game.players) >= 2 /\ Len(game'.players) = 0 =>
       \/ SignalsEnd(out')
       \/ \E dt \in DtSet : \E r \in Game_run(game', dt) : SignalsEnd(r.out)]_vars

(***************************************************************************)
(* C30: in every state, every factory has at most as many probes as its    *)
(* owner's maximum (factory_max_probe, plus the increase with              *)
(* FACTORY_MAX_PROBE), and the step of Factory::run on it, on what that    *)
(* step leaves, and on what it leaves once the first probe has died, does  *)
(* this: in Produce with the maximum reached it goes to Wait and emits no  *)
(* just-created probe, in Produce below the maximum it emits at most one,  *)
(* in Wait it emits none and is in Produce afterwards only if its probes   *)
(* are fewer than the maximum.                                             *)
(***************************************************************************)
MaxProbes(techs) ==
  factory_max_probe +
    (IF "FACTORY_MAX_PROBE" \in techs THEN tech_factory_max_probe_increase ELSE 0)

JustCreated(factory) ==
  Cardinality({k \in 1 .. Len(factory.state_handle.state.probes) :
                 factory.state_handle.state.probes[k].just_created})

StepKeepsStock(factory, player, map, dt) ==
  LET after == Factory_step(factory, player.id, player.techs, map, dt).factory
      emitted == JustCreated(after) - JustCreated(factory)
  IN /\ Len(factory.probes) <= MaxProbes(player.techs)
     /\ after.probes = factory.probes
     /\ factory.policy = "Produce" /\ Len(factory.probes) = MaxProbes(player.techs) =>
          after.policy = "Wait" /\ emitted = 0
     /\ factory.policy = "Produce" /\ Len(factory.probes) < MaxProbes(player.techs) =>
          after.policy = "Produce" /\ emitted \in {0, 1}
     /\ factory.policy = "Wait" =>
          /\ emitted = 0
          /\ after.policy \in {"Wait", "Produce"}
          /\ after.policy = "Produce" => Len(factory.probes) < MaxProbes(player.techs)

TravelFires(probe, dt) == travel_wait(probe.delayer_travel, dt, ProbePace).fired

ClaimFires(probe, dt) == Delayer_wait(probe.delayer_claim, dt).fired

C31_ProbePolicyFrames ==
  last.op = "run" =>
    LET b == last.before
        p == last.probe
    IN /\ (b.policy = "Farm" /\ p.policy = "Claim") =>
            TravelFires(b, last.dt) /\ p.pos = p.target
       /\ (b.policy = "Claim" /\ p.policy = "Farm") =>
            /\ ClaimFires(b, last.dt)
            /\ last.map = claim_tile(last.map_before, last.player, b.pos,
                                     probe_claim_intensity)
       /\ (b.policy = "Farm" \/ (b.policy = "Claim" /\ ~ClaimFires(b, last.dt))) =>
            last.map = last.map_before
       /\ (b.policy = "Farm" /\ b.target = b.pos) => p.policy = "Claim"

(***************************************************************************)
(* C32: a probe whose claim fired and that found no new farm target stays  *)
(* on its target: after every later frame in Farm its pos is its target.   *)
(***************************************************************************)
C32_IdleProbeStays ==
  (last.op = "run" /\ last.before.policy = "Farm"
     /\ last.before.pos = last.before.target) =>
    last.probe.pos = last.probe.target

(***************************************************************************)
(* C33: in every state, explode_probes of any one probe by its owner only  *)
(* lowers tiles of opponents next to the probe: a tile that is out of      *)
(* Manhattan distance 1 of the probe, or that is not owned by an opponent, *)
(* is left as it is; every other tile keeps its building unless it is      *)
(* conquered, has an occupation that is its former occupation minus the    *)
(* explosion intensity floored at 0, and keeps its owner or, at occupation *)
(* 0, has none.  No occupation is raised and no tile gets the exploding    *)
(* player as its owner.                                                    *)
(***************************************************************************)
ExplosionIntensity(player) ==
  IF "PROBE_EXPLOSION_INTENSITY" \in player.techs
    THEN probe_explosion_intensity + tech_probe_explosion_intensity_increase
    ELSE probe_explosion_intensity

ExplosionOnlyLowers(before, after, probe, player) ==
  \A c \in Coords :
    LET t == before.tiles[c]
        u == after.tiles[c]
        k == ExplosionIntensity(player)
    IN IF Manhattan(c, probe.pos) <= 1 /\ is_owned_by_opponent_of(t, player.id)
         THEN /\ u.occupation = (IF t.occupation >= k THEN t.occupation - k ELSE 0)
              /\ u.owner_id = (IF u.occupation = 0 THEN None ELSE t.owner_id)
              /\ u.building_id = (IF u.occupation = 0 THEN None ELSE t.building_id)
         ELSE u = t

ExplosionRecorded(probe) == probe.state_handle.state.death = Some("Exploded")

C34_ProbeExplodesOnce ==
  \A i \in 1 .. Len(game.players) :
    \A f \in 1 .. Len(game.players[i].factories) :
      \A k \in 1 .. Len(game.players[i].factories[f].probes) :
        LET player == game.players[i]
            probe == player.factories[f].probes[k]
        IN ExplosionRecorded(probe) =>
             /\ explode_probes(game, player.id, <<probe.id>>).game.map.tiles
                  = game.map.tiles
             /\ probe.policy = "Attack" =>
                  \A dt \in DtSet :
                    \A r \in Probe_step(probe, player.id, player.techs,
                                        positions_of(player.factories), game.map, dt) :
                      r.map.tiles = game.map.tiles

(***************************************************************************)
(* C35: in every state, the live buildings of the game (the factories and  *)
(* the turrets in the lists of the players) are on pairwise different      *)
(* coordinates.                                                            *)
(***************************************************************************)
\* the live buildings as <<player id, building id, pos>>
LiveBuildings(g) ==
  UNION {{<<g.players[i].id, g.players[i].factories[f].id, g.players[i].factories[f].pos>> :
            f \in 1 .. Len(g.players[i].factories)}
         \cup {<<g.players[i].id, g.players[i].turrets[t].id, g.players[i].turrets[t].pos>> :
                 t \in 1 .. Len(g.players[i].turrets)} :
         i \in 1 .. Len(g.players)}

C35_OneBuildingPerCoordinate ==
  \A a, b \in LiveBuildings(game) : a[3] = b[3] => a = b

\* a building was conquered and reported dead, and a player has built a
\* building since the start of the game
C35_Witness ==
  /\ \E d \in deaths : d.cause = "Conquered"
  /\ \E a \in LiveBuildings(game) : a[2] \notin {FirstUnitId, FirstUnitId + 2}

(***************************************************************************)
(* C36: get_probe_attack_target returns None exactly when none of the      *)
(* first 1000 coordinates of the vortex around the probe is a tile of the  *)
(* map owned by an opponent; otherwise it returns the coordinate of a tile *)
(* of the map that is owned by an opponent and is within Manhattan         *)
(* distance 2 of the first such coordinate of the vortex.                  *)
(***************************************************************************)
RECURSIVE VortexFrom(_, _, _)
\* the coordinates of the rings distance, distance + 1, ... until at least n
VortexFrom(origin, distance, n) ==
  IF n <= 0 THEN <<>>
  ELSE ring(origin, distance)
         \o VortexFrom(origin, distance + 1, n - Len(ring(origin, distance)))

FirstOfVortex(origin, n) == SubSeq(VortexFrom(origin, 0, n), 1, n)

OpponentTile(map, c, player_id) ==
  has_tile(c) /\ is_owned_by_opponent_of(map.tiles[c], player_id)

C36_AttackTargetNearSeed ==
  last.op = "get_probe_attack_target" =>
    LET first == FirstOfVortex(last.coord, 1000)
        hits == {i \in 1 .. Len(first) : OpponentTile(last.map, first[i], last.player)}
    IN IF hits = {} THEN last.res = None
       ELSE /\ IsSome(last.res)
            /\ OpponentTile(last.map, Unwrap(last.res), last.player)
            /\ Manhattan(Unwrap(last.res), first[Min(hits)]) <= 2

\* the seed is the 1000th coordinate of the vortex and the target returned is
\* another tile of its region
C36_Witness ==
  /\ last.op = "get_probe_attack_target"
  /\ IsSome(last.res)
  /\ LET first == FirstOfVortex(last.coord, 1000)
         hits == {i \in 1 .. Len(first) : OpponentTile(last.map, first[i], last.player)}
     IN /\ hits = {1000}
        /\ Unwrap(last.res) # first[1000]

(***************************************************************************)
(* C37: a coordinate returned by get_probe_farm_target is a tile of the    *)
(* map at Manhattan distance 1 to 3 of the probe or of a factory of the    *)
(* player, with an occupation below the maximum, that is the player's or   *)
(* has an occupation of at most 3 and a tile of the player at distance 1;  *)
(* None is returned only when there is no such tile; when there is one     *)
(* around the probe, the coordinate returned is around the probe.          *)
(***************************************************************************)
ValidFarmTarget(map, c, player_id) ==
  /\ has_tile(c)
  /\ map.tiles[c].occupation < FarmCap
  /\ \/ is_owned_by(map.tiles[c], player_id)
     \/ /\ map.tiles[c].occupation <= 3
        /\ \E n \in Coords : /\ Manhattan(n, c) = 1
                             /\ is_owned_by(map.tiles[n], player_id)

FarmTargetsAround(map, origin, player_id) ==
  {c \in Coords : /\ Manhattan(c, origin) >= 1
                  /\ Manhattan(c, origin) <= 3
                  /\ ValidFarmTarget(map, c, player_id)}

C37_FarmTargetValid ==
  last.op = "get_probe_farm_target" =>
    LET near == FarmTargetsAround(last.map, last.coord, last.player)
        far == UNION {FarmTargetsAround(last.map, last.positions[i], last.player) :
                        i \in 1 .. Len(last.positions)}
    IN /\ IsSome(last.res) => Unwrap(last.res) \in near \cup far
       /\ last.res = None => near \cup far = {}
       /\ near # {} => /\ IsSome(last.res)
                       /\ Unwrap(last.res) \in near

\* no farm target around the probe, and the target returned is a tile of
\* nobody around a factory, next to a tile of the player, while a tile of the
\* opponent above 3 is next to a tile of the player too
C37_Witness ==
  /\ last.op = "get_probe_farm_target"
  /\ IsSome(last.res)
  /\ FarmTargetsAround(last.map, last.coord, last.player) = {}
  /\ last.map.tiles[Unwrap(last.res)].owner_id = None
  /\ \E c \in Coords :
       /\ last.map.tiles[c].occupation > 3
       /\ last.map.tiles[c].occupation < FarmCap
       /\ \E n \in Coords : /\ Manhattan(n, c) = 1
                            /\ is_owned_by(last.map.tiles[n], last.player)

(***************************************************************************)
(* C38: a frame of Map::run changes the tiles and the pending state of the *)
(* map only if the 1 s gate fires in it (the time waited since the gate    *)
(* last fired, dt included, is at least 1 s, that is 2 in units of 0.5 s), *)
(* hence never before 1 s has elapsed since the map was created; a tile it *)
(* changes had an occupation above max_occupation / 2, keeps its owner and *)
(* its building, has its occupation lowered by 2, or set to 0 when it was  *)
(* below 2, and has its new occupation in the pending state of the map.    *)
(***************************************************************************)
DeprecateGateFires(map, dt) == map.delayer_deprecate.counter + dt >= 2

TileDiffRecorded(map, c) ==
  /\ map.state_handle.is_state
  /\ \E i \in 1 .. Len(map.state_handle.state.tiles) :
       /\ map.state_handle.state.tiles[i].id = map.tiles[c].id
       /\ map.state_handle.state.tiles[i].occupation = Some(map.tiles[c].occupation)

C38_DeprecationGatedAndBounded ==
  last.op = "run" =>
    LET b == last.map_before
        m == last.map
    IN /\ ~DeprecateGateFires(b, last.dt) =>
            /\ m.tiles = b.tiles
            /\ m.state_handle = b.state_handle
       /\ m.tiles # b.tiles => last.elapsed >= 2
       /\ \A c \in Coords :
            \/ m.tiles[c] = b.tiles[c]
            \/ /\ 2 * b.tiles[c].occupation > last.cap
               /\ m.tiles[c] =
                    [b.tiles[c] EXCEPT !.occupation = IF @ >= 2 THEN @ - 2 ELSE 0]
               /\ TileDiffRecorded(m, c)

\* the gate has fired and a tile at occupation 1 was lowered to 0, keeping
\* its owner and its building
C38_Witness ==
  /\ last.op = "run"
  /\ \E c \in Coords :
       /\ last.map_before.tiles[c].occupation = 1
       /\ last.map.tiles[c].occupation = 0
       /\ IsSome(last.map.tiles[c].building_id)
       /\ IsSome(last.map.tiles[c].owner_id)

(***************************************************************************)
(* C39: wait(dt) returns true exactly when counter + dt >= delay; then the *)
(* lifetime total grows by counter + dt and the counter is 0, otherwise    *)
(* the counter is counter + dt and nothing else changes.  After any calls  *)
(* of wait, reset and set_delay the lifetime total plus the counter is the *)
(* sum of the dt passed to wait, and set_delay leaves the counter as it is.*)
(***************************************************************************)
C39_DelayerCountsTime ==
  /\ last.d.total_delayed + last.d.counter = last.sum
  /\ last.op = "wait" =>
       LET c == last.before.counter + last.dt IN
       /\ last.res = (c >= last.before.delay)
       /\ last.d = IF c >= last.before.delay
                     THEN [last.before EXCEPT !.total_delayed = @ + c, !.counter = 0]
                     ELSE [last.before EXCEPT !.counter = c]
  /\ last.op = "set_delay" => last.d.counter = last.before.counter

\* a wait that fired with an excess on a counter above 0
C39_Witness ==
  /\ last.op = "wait"
  /\ last.res = TRUE
  /\ last.before.counter > 0
  /\ last.before.counter + last.dt > last.before.delay
  /\ last.d.total_delayed = last.sum
  /\ last.sum >= 3

(***************************************************************************)
(* C40: square(origin, d) holds exactly the coordinates at Manhattan       *)
(* distance <= d, each once; square_without_origin(origin, d) the same     *)
(* without the origin (nothing for d = 0); ring(origin, d) exactly the     *)
(* coordinates at Manhattan distance d, each once (the origin alone for    *)
(* d = 0); iter_vortex(origin) yields the origin, then ring(1), then       *)
(* ring(2), and so on, each ring in the order ring returns it.             *)
(***************************************************************************)
NoDuplicate(s) == \A i, j \in 1 .. Len(s) : s[i] = s[j] => i = j

Elements(s) == {s[i] : i \in 1 .. Len(s)}

\* the coordinates at Manhattan distance lo .. hi of the origin
ManhattanBand(origin, lo, hi) ==
  {c \in (origin[1] - hi - 1 .. origin[1] + hi + 1)
           \X (origin[2] - hi - 1 .. origin[2] + hi + 1) :
     Manhattan(origin, c) >= lo /\ Manhattan(origin, c) <= hi}

RECURSIVE RingsUpTo(_, _)
\* origin, ring(1), ..., ring(distance) one after the other
RingsUpTo(origin, distance) ==
  IF distance = 0 THEN <<origin>>
  ELSE RingsUpTo(origin, distance - 1) \o ring(origin, distance)

C40_GeometryShapes ==
  /\ last.op = "shapes" =>
       /\ NoDuplicate(last.square)
       /\ Elements(last.square) = ManhattanBand(last.origin, 0, last.d)
       /\ NoDuplicate(last.square_without_origin)
       /\ Elements(last.square_without_origin) = ManhattanBand(last.origin, 1, last.d)
       /\ last.d = 0 => last.square_without_origin = <<>>
       /\ NoDuplicate(last.ring)
       /\ Elements(last.ring) = ManhattanBand(last.origin, last.d, last.d)
       /\ last.d = 0 => last.ring = <<last.origin>>
  /\ Len(last.yielded) = n_actions
  /\ last.yielded = SubSeq(RingsUpTo(last.origin, ShapeMax), 1, n_actions)

\* the iterator has yielded rings 1 to 3 whole and entered ring 4, and the
\* shapes of distance 3 were computed
C40_Witness ==
  /\ last.op = "shapes"
  /\ last.d = 3
  /\ Len(last.square) = 25
  /\ Len(last.square_without_origin) = 24
  /\ Len(last.ring) = 12
  /\ Len(last.yielded) = VortexSteps
  /\ last.v.distance = 4
  /\ last.v.idx = 1

====
